---- MODULE Spec2Model ----
\* Model of the comparator dispatch and tree-traversal engine of
\* dir-content-diff (dir_content_diff/core.py, base_comparators.py,
\* registry.py, util.py).
\*
\* A relative path is a name ("a.json"); PathTokens gives its components
\* (stem, suffix).  A regular expression is a sequence of tokens: a literal
\* component, "ANY" (any run of characters) or "$" (end of string).
\* File contents are "v1", "v2" (parsable documents holding one value under
\* the key named after the file's stem) or "bad" (not parsable).
EXTENDS Integers, Sequences, FiniteSets, TLC

\* ------------------------------------------------------------------------
\* Bounds
\* ------------------------------------------------------------------------
\* Number of compare_trees calls of one behaviour (each executor type is
\* called at most once)
MaxCalls == 3

\* ------------------------------------------------------------------------
\* Universe of the model
\* ------------------------------------------------------------------------
Paths == {"a.json", "b.json", "c.dat"}

PathTokens(p) ==
    CASE p = "a.json" -> <<"a", ".json">>
      [] p = "b.json" -> <<"b", ".json">>
      [] p = "c.dat"  -> <<"c", ".dat">>

Stem(p) == PathTokens(p)[1]

\* The place of the path in the ascending order of the strings
PathRank(p) ==
    CASE p = "a.json" -> 1
      [] p = "b.json" -> 2
      [] p = "c.dat"  -> 3

\* pathlib's Path.suffix
Suffix(p) == PathTokens(p)[2]

\* Rank of a stem in the lexicographic order of strings.
StemRank(s) == CASE s = "a" -> 1 [] s = "b" -> 2 [] s = "c" -> 3

Absent == "absent"
Contents == {"v1", "v2", "bad"}

ExecutorTypes == {"sequential", "thread", "process"}

\* ------------------------------------------------------------------------
\* Python values a comparison can return
\* ------------------------------------------------------------------------
PyFalse == [t |-> "bool", b |-> FALSE]
PyTrue == [t |-> "bool", b |-> TRUE]
PyNone == [t |-> "none"]
PyStr(s) == [t |-> "str", s |-> s]
PyList(items) == [t |-> "list", items |-> items]
\* a reference to a list object of the heap (variable lists)
PyListRef(r) == [t |-> "listref", ref |-> r]

\* ------------------------------------------------------------------------
\* Regular expressions: re.compile(pattern).match(relative_path)
\* ------------------------------------------------------------------------
RECURSIVE ReMatch(_, _)
ReMatch(pat, toks) ==
    IF pat = <<>> THEN TRUE
    ELSE IF Head(pat) = "ANY"
         THEN \E k \in 0..Len(toks) :
                 ReMatch(Tail(pat), SubSeq(toks, k + 1, Len(toks)))
    ELSE IF Head(pat) = "$" THEN toks = <<>> /\ ReMatch(Tail(pat), toks)
    ELSE toks # <<>> /\ Head(pat) = Head(toks) /\ ReMatch(Tail(pat), Tail(toks))

PatternMatch(pat, p) == ReMatch(pat, PathTokens(p))

\* ------------------------------------------------------------------------
\* Comparators (base_comparators.py) and the registry (registry.py)
\* ------------------------------------------------------------------------
\* Classes deriving from BaseComparator, and plain callables that can be
\* registered instead (register_comparator's documented signature).
BaseClasses == {"DefaultComparator", "JsonComparator"}
Callables == {"bad_comparator", "bad_comparator_exception_failing", "quiet_comparator"}

IsBaseComparator(kind) == kind \in BaseClasses

\* The value None held by an entry of a mapping of comparators
NullEntry == "null"

\* i.__class__.__name__
ClassName(kind) ==
    IF IsBaseComparator(kind) THEN kind
    ELSE IF kind = NullEntry THEN "NoneType"
    ELSE "function"

\* BaseComparator.save_capability, read through hasattr() by the engine
SaveCapability(kind) == kind = "JsonComparator"

\* The key None of the registry
NoneKey == "None"

_DEFAULT_COMPARATORS ==
    << <<NoneKey, "DefaultComparator">>, <<".json", "JsonComparator">> >>

\* dict helpers: a dict is a sequence of <<key, value>> in insertion order
Keys(d) == {d[i][1] : i \in DOMAIN d}

Value(d, k) == d[CHOOSE i \in DOMAIN d : d[i][1] = k][2]

Put(d, k, v) ==
    IF k \in Keys(d)
    THEN [i \in DOMAIN d |-> IF d[i][1] = k THEN <<k, v>> ELSE d[i]]
    ELSE Append(d, <<k, v>>)

\* dict.pop(k, default) on a record-like dict (a function from keys)
Pop(f, k) == [x \in (DOMAIN f) \ {k} |-> f[x]]

EmptyDict == [x \in {} |-> TRUE]

\* ------------------------------------------------------------------------
\* ComparisonConfig (core.py)
\* ------------------------------------------------------------------------
\* specific_args is a dict (sequence of <<key, entry>>); an entry is a
\* function from its keys ("patterns", "comparator", "args" and keyword
\* arguments) to their values.

\* __attrs_post_init__, lines 186-188: v.pop("patterns") on every entry that
\* holds the key; the dict object is the caller's.
PopPatterns(sa) ==
    [i \in DOMAIN sa |-> <<sa[i][1], Pop(sa[i][2], "patterns")>>]

\* The <<pattern, group key>> pairs in the order the loops of lines 186-192
\* visit them.
RECURSIVE GroupPatterns(_)
GroupPatterns(sa) ==
    IF sa = <<>> THEN <<>>
    ELSE LET key == Head(sa)[1]
             v == Head(sa)[2]
             own == IF "patterns" \in DOMAIN v
                    THEN [j \in DOMAIN v.patterns |-> <<v.patterns[j], key>>]
                    ELSE <<>>
         IN own \o GroupPatterns(Tail(sa))

\* pattern_specific_args[compiled_pattern] = v, for the pairs in order.  The
\* value is the entry object itself, named here by its key in specific_args.
RECURSIVE AssignAll(_, _)
AssignAll(d, pairs) ==
    IF pairs = <<>> THEN d
    ELSE AssignAll(Put(d, Head(pairs)[1], Head(pairs)[2]), Tail(pairs))

PatternSpecificArgs(sa) == AssignAll(<<>>, GroupPatterns(sa))

\* A variant of should_ignore_file in which a file matching an include
\* pattern is kept without looking at the exclude patterns
ShouldIgnoreFileIncludeWins(include, exclude, p) ==
    IF include # <<>>
    THEN ~(\E i \in DOMAIN include : PatternMatch(include[i], p))
    ELSE \E i \in DOMAIN exclude : PatternMatch(exclude[i], p)

\* ComparisonConfig.should_ignore_file
ShouldIgnoreFile(include, exclude, p) ==
    IF include # <<>> /\ ~(\E i \in DOMAIN include : PatternMatch(include[i], p))
    THEN TRUE
    ELSE \E i \in DOMAIN exclude : PatternMatch(exclude[i], p)

\* _collect_files_to_compare over the reference files in glob order
RECURSIVE CollectFilesToCompare(_, _, _)
CollectFilesToCompare(walk, include, exclude) ==
    IF walk = <<>> THEN <<>>
    ELSE (IF ShouldIgnoreFile(include, exclude, Head(walk))
          THEN <<>> ELSE <<Head(walk)>>)
         \o CollectFilesToCompare(Tail(walk), include, exclude)

\* _split_into_chunks
RECURSIVE ChunksFrom(_, _)
ChunksFrom(items, chunk_size) ==
    IF items = <<>> THEN <<>>
    ELSE IF Len(items) <= chunk_size THEN <<items>>
    ELSE <<SubSeq(items, 1, chunk_size)>>
         \o ChunksFrom(SubSeq(items, chunk_size + 1, Len(items)), chunk_size)

Max(a, b) == IF a >= b THEN a ELSE b
Min(a, b) == IF a <= b THEN a ELSE b

\* A variant that keeps the full chunks only
SplitIntoChunksFullOnly(items, num_chunks) ==
    IF num_chunks <= 0 THEN <<items>>
    ELSE LET chunk_size == Max(1, Len(items) \div num_chunks)
         IN [c \in 1..(Len(items) \div chunk_size) |->
                SubSeq(items, (c - 1) * chunk_size + 1, c * chunk_size)]

SplitIntoChunks(items, num_chunks) ==
    IF num_chunks <= 0 THEN <<items>>
    ELSE ChunksFrom(items, Max(1, Len(items) \div num_chunks))

\* ------------------------------------------------------------------------
\* File Pair Resolver (core.py: _compare_single_file, pick_comparator)
\* ------------------------------------------------------------------------
Exc(type, text, printable) ==
    [type |-> type, text |-> text, printable |-> printable]

NoExc == [type |-> "", text |-> "", printable |-> TRUE]

NoOverride == [none |-> TRUE]

\* Index of the first item of pattern_specific_args whose pattern matches
\* (0 when none does): the loop of lines 437-440.
FirstMatch(psa, p) ==
    IF \E i \in DOMAIN psa : PatternMatch(psa[i][1], p)
    THEN CHOOSE i \in DOMAIN psa :
            /\ PatternMatch(psa[i][1], p)
            /\ \A j \in 1..(i - 1) : ~PatternMatch(psa[j][1], p)
    ELSE 0

\* A variant of lines 435-442 that looks at the pattern groups before the
\* exact-path entry
SpecificFileArgsPatternFirst(p, sa, psa) ==
    IF FirstMatch(psa, p) # 0
    THEN [src |-> "pattern", key |-> psa[FirstMatch(psa, p)][2],
          args |-> Value(sa, psa[FirstMatch(psa, p)][2])]
    ELSE IF p \in Keys(sa)
    THEN [src |-> "exact", key |-> p, args |-> Value(sa, p)]
    ELSE [src |-> "none", key |-> "", args |-> EmptyDict]

\* Lines 435-442: the arguments of a file.  src tells where they come from:
\* "exact" is the entry object of specific_args itself, "pattern" a deep copy
\* of the entry the matching pattern refers to.
SpecificFileArgs(p, sa, psa) ==
    IF p \in Keys(sa)
    THEN [src |-> "exact", key |-> p, args |-> Value(sa, p)]
    ELSE IF FirstMatch(psa, p) # 0
    THEN [src |-> "pattern", key |-> psa[FirstMatch(psa, p)][2],
          args |-> Value(sa, psa[FirstMatch(psa, p)][2])]
    ELSE [src |-> "none", key |-> "", args |-> EmptyDict]

\* A variant of the existence check that never reports a missing file
CompFileExistsAlways(comp, p) == TRUE

\* Lines 429-430: comp_file.exists(), comp being the compared tree
CompFileExists(comp, p) == comp[p] # Absent

\* A comparator object: its class (or function) and the object it is.
\* o = "cfg": the entry k of config.comparators; "reg": the entry k of the
\* registry of the running process; "arg": the object held by the entry k of
\* specific_args; "copy": the deep copy made for the file k.
Instance(kind, o, k) == [kind |-> kind, o |-> o, k |-> k]

NoInstance == Instance("", "", "")

\* A variant of pick_comparator that looks at the suffix before the name
PickComparatorSuffixFirst(override, holder, suffix, comparators, reg) ==
    IF "inst" \in DOMAIN override /\ IsBaseComparator(override.inst)
    THEN [exc |-> NoExc, comparator |-> Instance(override.inst, holder[1], holder[2])]
    ELSE LET name == IF "name" \in DOMAIN override THEN override.name ELSE ""
             named == {i \in DOMAIN comparators :
                          "name" \in DOMAIN override
                          /\ ClassName(comparators[i][2]) = name}
             first == CHOOSE i \in named : \A j \in named : i <= j
         IN IF suffix \in Keys(comparators) /\ Value(comparators, suffix) # NullEntry
            THEN [exc |-> NoExc,
                  comparator |-> Instance(Value(comparators, suffix), "cfg", suffix)]
            ELSE IF named # {}
            THEN [exc |-> NoExc,
                  comparator |-> Instance(comparators[first][2], "cfg",
                                          comparators[first][1])]
            ELSE IF NoneKey \in Keys(reg) /\ Value(reg, NoneKey) # NullEntry
            THEN [exc |-> NoExc,
                  comparator |-> Instance(Value(reg, NoneKey), "reg", NoneKey)]
            ELSE [exc |-> Exc("RuntimeError", "No default comparator available", TRUE),
                  comparator |-> NoInstance]

\* pick_comparator.  override is the popped "comparator" value, holder the
\* object identity an instance override has; comparators is
\* config.comparators and reg the registry (_COMPARATORS) of the process.
PickComparator(override, holder, suffix, comparators, reg) ==
    IF "inst" \in DOMAIN override /\ IsBaseComparator(override.inst)
    THEN [exc |-> NoExc, comparator |-> Instance(override.inst, holder[1], holder[2])]
    ELSE LET name == IF "name" \in DOMAIN override THEN override.name ELSE ""
             named == {i \in DOMAIN comparators :
                          "name" \in DOMAIN override
                          /\ ClassName(comparators[i][2]) = name}
             first == CHOOSE i \in named : \A j \in named : i <= j
         IN IF named # {}
            THEN [exc |-> NoExc,
                  comparator |-> Instance(comparators[first][2], "cfg",
                                          comparators[first][1])]
            ELSE IF suffix \in Keys(comparators) /\ Value(comparators, suffix) # NullEntry
            THEN [exc |-> NoExc,
                  comparator |-> Instance(Value(comparators, suffix), "cfg", suffix)]
            ELSE IF NoneKey \in Keys(reg) /\ Value(reg, NoneKey) # NullEntry
            THEN [exc |-> NoExc,
                  comparator |-> Instance(Value(reg, NoneKey), "reg", NoneKey)]
            ELSE [exc |-> Exc("RuntimeError", "No default comparator available", TRUE),
                  comparator |-> NoInstance]

\* ------------------------------------------------------------------------
\* Strategy pipeline (base_comparators.py) and messages (util.py)
\* ------------------------------------------------------------------------
\* diff_msg_formatter: False when there is no reason, else the message.
\* reason is PyFalse, PyTrue, or a record describing the reason text.
DiffMsg(p, reason, diff_args, diff_kwargs) ==
    IF reason = PyFalse THEN PyFalse
    ELSE [t |-> "msg", kind |-> "different", path |-> p,
          diff_args |-> diff_args, diff_kwargs |-> diff_kwargs,
          reason |-> reason]

\* Line 431
MissingMsg(p) == [t |-> "msg", kind |-> "missing", path |-> p, root |-> "comp_path"]

\* Line 525
ChunkErrorMsg(e) == [t |-> "msg", kind |-> "chunk_error", text |-> e.text]

\* Lines 283-292 of compare_files
ExceptionReason(e) ==
    [r |-> "exception", type |-> e.type,
     text |-> IF e.printable THEN e.text
              ELSE "UNKNOWN ERROR: Could not get information from the exception"]

\* JsonComparator.load; the other loaders return the path
LoadRaises(kind, content) == kind = "JsonComparator" /\ content = "bad"

JsonError == Exc("JSONDecodeError", "Expecting value", TRUE)

\* dictdiffer.diff on two documents {stem: value}; ignore is the set of keys
\* given by the keyword argument of the same name
DictDiff(p, ref, comp, kwargs) ==
    IF ref = comp \/ ("ignore" \in DOMAIN kwargs /\ Stem(p) \in kwargs.ignore)
    THEN <<>>
    ELSE << [action |-> "change", key |-> Stem(p), old |-> ref, new |-> comp] >>

\* DefaultComparator.diff: not filecmp.cmp(ref, comp)
BinaryDiff(ref, comp) == ref # comp

\* sorted(): insertion of one formatted difference in a sorted list
RECURSIVE InsertSorted(_, _)
InsertSorted(x, sorted) ==
    IF sorted = <<>> THEN <<x>>
    ELSE IF StemRank(x.key) <= StemRank(Head(sorted).key) THEN <<x>> \o sorted
    ELSE <<Head(sorted)>> \o InsertSorted(x, Tail(sorted))

RECURSIVE SortDiffs(_)
SortDiffs(items) ==
    IF items = <<>> THEN <<>> ELSE InsertSorted(Head(items), SortDiffs(Tail(items)))

\* Lines 215-236 of __call__ for a list of differences: filter, format_diff
\* on each, sort, concatenate
FormattedDiffs(items) ==
    IF items = <<>> THEN PyFalse
    ELSE [r |-> "diffs", items |-> SortDiffs(items)]

\* What a plain callable returns or raises
CallableResult(kind, p, ref, comp) ==
    CASE kind = "bad_comparator" ->
            [exc |-> Exc("RuntimeError", "Bad comparator", TRUE), res |-> PyFalse]
      [] kind = "bad_comparator_exception_failing" ->
            [exc |-> Exc("RuntimeError", "NoRepr", FALSE), res |-> PyFalse]
      [] kind = "quiet_comparator" ->
            [exc |-> NoExc, res |-> IF ref = comp THEN PyNone ELSE PyStr("different")]

\* Truth value of a result; heap gives the content of the list objects
Truthy(v, heap) ==
    CASE v.t = "bool" -> v.b
      [] v.t = "none" -> FALSE
      [] v.t = "str" -> v.s # ""
      [] v.t = "list" -> v.items # <<>>
      [] v.t = "listref" -> heap[v.ref] # <<>>
      [] v.t = "msg" -> TRUE

\* A variant of the comparator call that builds the report also when the
\* raw differences are asked for
CompareFilesReportAlways(kind, p, ref, comp, args, kwargs, raw) ==
    IF ~IsBaseComparator(kind)
    THEN LET r == CallableResult(kind, p, ref, comp)
         IN IF r.exc # NoExc
            THEN DiffMsg(p, ExceptionReason(r.exc), args, kwargs)
            ELSE r.res
    ELSE IF LoadRaises(kind, ref) \/ LoadRaises(kind, comp)
    THEN DiffMsg(p, ExceptionReason(JsonError), args, kwargs)
    ELSE IF kind = "JsonComparator"
    THEN DiffMsg(p, FormattedDiffs(DictDiff(p, ref, comp, kwargs)), args, kwargs)
    ELSE DiffMsg(p, [t |-> "bool", b |-> BinaryDiff(ref, comp)], args, kwargs)

\* compare_files on objects no other invocation touches: the comparator
\* call with every exception turned into a message (lines 266-302)
CompareFiles(kind, p, ref, comp, args, kwargs, raw) ==
    IF ~IsBaseComparator(kind)
    THEN LET r == CallableResult(kind, p, ref, comp)
         IN IF r.exc # NoExc
            THEN DiffMsg(p, ExceptionReason(r.exc), args, kwargs)
            ELSE r.res
    ELSE IF LoadRaises(kind, ref) \/ LoadRaises(kind, comp)
    THEN DiffMsg(p, ExceptionReason(JsonError), args, kwargs)
    ELSE IF kind = "JsonComparator"
    THEN IF raw THEN PyList(DictDiff(p, ref, comp, kwargs))
         ELSE DiffMsg(p, FormattedDiffs(DictDiff(p, ref, comp, kwargs)), args, kwargs)
    ELSE IF raw THEN [t |-> "bool", b |-> BinaryDiff(ref, comp)]
         ELSE DiffMsg(p, [t |-> "bool", b |-> BinaryDiff(ref, comp)], args, kwargs)

\* Lines 434-452 of _compare_single_file: the arguments of the file, the
\* comparator picked, and specific_args after the pops (an exact-path entry
\* is popped in place, a pattern entry in its deep copy).
Resolve(p, sa, psa, comparators, reg) ==
    LET sfa == SpecificFileArgs(p, sa, psa)
        override == IF "comparator" \in DOMAIN sfa.args
                    THEN sfa.args.comparator ELSE NoOverride
        holder == IF sfa.src = "exact" THEN <<"arg", sfa.key>> ELSE <<"copy", p>>
        pick == PickComparator(override, holder, Suffix(p), comparators, reg)
        popped1 == Pop(sfa.args, "comparator")
        popped2 == Pop(popped1, "args")
        left == IF pick.exc # NoExc THEN popped1 ELSE popped2
    IN [exc |-> pick.exc,
        comparator |-> pick.comparator,
        args |-> IF "args" \in DOMAIN sfa.args THEN sfa.args.args ELSE <<>>,
        kwargs |-> popped2,
        src |-> sfa.src,
        key |-> sfa.key,
        sa |-> IF sfa.src = "exact" THEN Put(sa, p, left) ELSE sa]

\* export_formatted_file: "skip" without save capability, "raise" when the
\* compared file cannot be loaded, else "write"
ExportOutcome(kind, comp) ==
    IF ~SaveCapability(kind) THEN "skip"
    ELSE IF LoadRaises(kind, comp) THEN "raise"
    ELSE "write"

\* ------------------------------------------------------------------------
\* State
\* ------------------------------------------------------------------------
VARIABLES
    sc,               \* the caller's inputs: the two trees and the keyword arguments
    cfg,              \* the ComparisonConfig object the caller built from them
    style,            \* how the running call got its configuration
    export_formatted_files,  \* config.export_formatted_files of the running call
    pytest_trigger,   \* the attributes pytest_configure sets on assert_equal_trees
    asserting,        \* the assert_equal_trees call the running call is made by
    asserted,         \* per executor type, how its assert_equal_trees call ended
    objstate,         \* the attributes of every comparator object alive
    obtained,         \* the mapping get_comparators() returned to the caller
    result,           \* the last call of the registry and configuration API
    invocation,       \* BaseComparator.__call__ run on its own: position and locals
    registry,         \* registry._COMPARATORS of the calling process
    callpc,           \* "idle", "running" (inside compare_trees) or "raising"
    mode,             \* config.executor_type of the running call
    start_method,     \* how worker processes start: "fork" or "spawn"
    sargs,            \* config.specific_args (the dict object)
    chunk_sargs,      \* per chunk, the worker process's copy of specific_args
    psa,              \* config.pattern_specific_args
    comparators,      \* config.comparators
    files,            \* files_to_compare
    worker,           \* per file: the position and locals of its comparison
    cs,               \* current_state of every comparator object in use
    lists,            \* the list objects created by format_data and diff
    collected,        \* how many results the collecting loop has consumed
    different_files,  \* the mapping being built
    pending,          \* the exception compare_trees is propagating
    returned,         \* per executor type, how its call ended
    exported,         \* files written: <<suffix of the formatted directory, path>>
    calls             \* number of compare_trees calls started

\* The variables compare_trees never touches
apivars == <<pytest_trigger, objstate, obtained, result, invocation>>

vars == <<sc, apivars, asserting, asserted, cfg, style, export_formatted_files, registry, callpc, mode, start_method, sargs, chunk_sargs, psa,
          comparators,
          files, worker, cs, lists, collected, different_files, pending,
          returned, exported, calls>>

\* os.cpu_count() of the platform (line 619)
CpuCount == 1

\* Lines 617-619; max_workers = 0 stands for None
ActualMaxWorkers ==
    IF sc.max_workers = 0 THEN Min(32, CpuCount + 4) ELSE sc.max_workers

\* Line 602: the branch compare_trees takes
Branch(executor_type, fs) ==
    IF executor_type # "sequential" /\ Len(fs) > 1 THEN executor_type
    ELSE "sequential"

NoRef == [w |-> "", k |-> ""]
ListRef(p, k) == [w |-> p, k |-> k]

IdleWorker ==
    [pc |-> "idle", comparator |-> NoInstance, args |-> <<>>,
     kwargs |-> EmptyDict, src |-> "", key |-> "", diffs |-> NoRef,
     res |-> PyFalse, exc |-> NoExc]

NoCall == [kind |-> "nocall"]

ObjectOf(comparator) == [o |-> comparator.o, k |-> comparator.k]

\* f with f[x] set to v, x added to the domain when new
Assign(f, x, v) == [y \in (DOMAIN f) \cup {x} |-> IF y = x THEN v ELSE f[y]]

IndexOf(seq, x) == CHOOSE i \in DOMAIN seq : seq[i] = x

InSeq(seq, x) == \E i \in DOMAIN seq : seq[i] = x

\* Lines 585-595: the suffix formatted_data_path adds to the name of the
\* compared root
FormattedSuffix(export) ==
    IF export # "True" /\ export # "False" THEN export ELSE "_FORMATTED"

\* The pc after the comparison of a file: line 465
AfterCompare == IF export_formatted_files = "False" THEN "done" ELSE "export"

\* ------------------------------------------------------------------------
\* compare_trees: entry (lines 581-600)
\* ------------------------------------------------------------------------
\* The three ways a call gets its configuration (_check_config):
\*   "kwargs": compare_trees(ref, comp, executor_type=m, **kwargs) with a
\*             fresh specific_args literal: ComparisonConfig(**kwargs);
\*   "config": compare_trees(ref, comp, config=cfg): cfg itself;
\*   "evolve": compare_trees(ref, comp, config=cfg, executor_type=m):
\*             attrs.evolve(cfg, executor_type=m).
Styles == {"kwargs", "config", "evolve"}

\* ComparisonConfig(**kwargs): the fields __attrs_post_init__ leaves
NewConfig(sa, cmps) ==
    [specific_args |-> PopPatterns(sa),
     pattern_specific_args |-> PatternSpecificArgs(sa),
     comparators |-> cmps]

\* _check_config: the configuration of the call.  attrs.evolve passes the
\* fields of the given config (the same specific_args and comparators
\* objects) to a new ComparisonConfig, whose __attrs_post_init__ runs again.
CheckConfig(st) ==
    CASE st = "kwargs" -> NewConfig(sc.specific_args, registry)
      [] st = "config" -> cfg
      [] st = "evolve" -> NewConfig(cfg.specific_args, cfg.comparators)

\* compare_trees: _check_config gives the configuration, the files are
\* collected.  In the "config" style the executor type is the one cfg was
\* built with, the default "sequential".
EnterCompareTrees(m, sm, st, export_arg) ==
    /\ callpc = "idle"
    /\ calls < MaxCalls
    /\ returned[m] = NoCall
    /\ st = "config" => m = "sequential"
    /\ mode' = m
    /\ start_method' = sm
    /\ style' = st
    /\ export_formatted_files' = export_arg
    /\ sargs' = CheckConfig(st).specific_args
    /\ psa' = CheckConfig(st).pattern_specific_args
    /\ comparators' = CheckConfig(st).comparators
    /\ files' = CollectFilesToCompare(sc.walk, sc.include, sc.exclude)
    /\ chunk_sargs' = IF Branch(m, files') = "process"
                      THEN [c \in DOMAIN SplitIntoChunks(files', ActualMaxWorkers) |->
                               sargs']
                      ELSE <<>>
    /\ worker' = [p \in Paths |-> IdleWorker]
    /\ cs' = EmptyDict
    /\ lists' = EmptyDict
    /\ collected' = 0
    /\ different_files' = EmptyDict
    /\ pending' = NoExc
    /\ callpc' = "running"
    /\ calls' = calls + 1
    /\ UNCHANGED <<sc, apivars, asserted, cfg, registry, returned, exported>>

NotAsserting == [on |-> FALSE, arg |-> "omitted"]

\* assert_equal_trees without the attributes of the pytest plugin
NoTrigger == [set |-> FALSE, data |-> FALSE, suffix |-> ""]

\* No object: the value None
NoObject == <<"None", <<"", "">> >>

\* The keyword arguments of ComparisonConfig() when none is given
NoKwargs ==
    [include |-> <<>>, exclude |-> <<>>, specific_args |-> <<>>,
     comparators |-> [given |-> FALSE, map |-> <<>>], export |-> "False"]

\* A call of the registry and configuration API and how it ended: the
\* extension given and the key it became, the force or quiet flag, the
\* keyword arguments of a configuration, the exception raised (NoExc if
\* none) and the object returned or touched
ApiCall(op, ext, key, flag, kw, exc, value) ==
    [op |-> op, ext |-> ext, key |-> key, flag |-> flag, kw |-> kw,
     exc |-> exc, value |-> value]

\* No strategy called on its own
NoInvocation ==
    [pc |-> "idle", out |-> PyFalse, raw |-> FALSE, diffs |-> PyNone,
     todo |-> <<>>, formatted |-> PyNone, log |-> <<>>, value |-> PyNone]

\* No call of the registry and configuration API yet
NoResult == ApiCall("none", <<>>, "", FALSE, NoKwargs, NoExc, NoObject)

\* A direct call of compare_trees with the keyword arguments of sc
CompareTrees(m, sm, st) ==
    /\ EnterCompareTrees(m, sm, st, sc.export)
    /\ asserting' = NotAsserting

\* ------------------------------------------------------------------------
\* _compare_single_file in the calling process (sequential loop, or a task
\* of the thread pool)
\* ------------------------------------------------------------------------
Active == {q \in Paths : worker[q].pc \notin {"idle", "done"}}

\* The sequential loop takes the files one by one; the thread pool starts
\* the tasks in submission order, at most max_workers at a time.
MayStart(p) ==
    /\ callpc = "running"
    /\ InSeq(files, p)
    /\ worker[p].pc = "idle"
    /\ CASE Branch(mode, files) = "sequential" -> IndexOf(files, p) = collected + 1
         [] Branch(mode, files) = "thread" ->
                /\ \A i \in 1..(IndexOf(files, p) - 1) : worker[files[i]].pc # "idle"
                /\ Cardinality(Active) < ActualMaxWorkers
         [] OTHER -> FALSE

\* Lines 429-452: existence check, arguments, comparator
Begin(p) ==
    /\ MayStart(p)
    /\ IF ~CompFileExists(sc.comp, p)
       THEN /\ worker' = [worker EXCEPT ![p].pc = "done", ![p].res = MissingMsg(p)]
            /\ sargs' = sargs
       ELSE LET r == Resolve(p, sargs, psa, comparators, registry)
            IN /\ worker' = [worker EXCEPT
                     ![p].pc = IF r.exc # NoExc THEN "done" ELSE "call",
                     ![p].exc = r.exc,
                     ![p].comparator = r.comparator,
                     ![p].args = r.args,
                     ![p].kwargs = r.kwargs,
                     ![p].src = r.src,
                     ![p].key = r.key]
               /\ sargs' = r.sa
    /\ UNCHANGED <<sc, apivars, asserting, asserted, cfg, style, export_formatted_files, registry, callpc, mode, start_method, chunk_sargs, psa, comparators,
                   files, cs, lists, collected, different_files, pending,
                   returned, exported, calls>>

\* compare_files: the comparator is called.  A plain callable or a
\* DefaultComparator runs to its result; a JsonComparator resets
\* current_state (line 198) and loads the two files (lines 201-202).
CallEnter(p) ==
    /\ callpc = "running"
    /\ worker[p].pc = "call"
    /\ LET w == worker[p]
           kind == w.comparator.kind
           ref == sc.ref[p]
           comp == sc.comp[p]
       IN /\ cs' = IF IsBaseComparator(kind)
                   THEN Assign(cs, ObjectOf(w.comparator), <<>>)
                   ELSE cs
          /\ IF kind = "JsonComparator"
                /\ ~LoadRaises(kind, ref) /\ ~LoadRaises(kind, comp)
             THEN worker' = [worker EXCEPT ![p].pc = "format"]
             ELSE worker' = [worker EXCEPT
                     ![p].pc = AfterCompare,
                     ![p].res = CompareFiles(kind, p, ref, comp, w.args,
                                             w.kwargs, sc.raw)]
    /\ UNCHANGED <<sc, apivars, asserting, asserted, cfg, style, export_formatted_files, registry, callpc, mode, start_method, sargs, chunk_sargs, psa,
                   comparators, files, lists, collected, different_files,
                   pending, returned, exported, calls>>

\* DictComparator.format_data, line 335:
\* self.current_state["format_errors"] = errors = []
FormatData(p) ==
    /\ callpc = "running"
    /\ worker[p].pc = "format"
    /\ lists' = Assign(lists, ListRef(p, "fd"), <<>>)
    /\ cs' = Assign(cs, ObjectOf(worker[p].comparator), <<ListRef(p, "fd")>>)
    /\ worker' = [worker EXCEPT ![p].pc = "diff"]
    /\ UNCHANGED <<sc, apivars, asserting, asserted, cfg, style, export_formatted_files, registry, callpc, mode, start_method, sargs, chunk_sargs, psa,
                   comparators, files, collected, different_files, pending,
                   returned, exported, calls>>

\* DictComparator.diff, lines 383-392: the list is the one current_state
\* holds now (a new one when it holds none); it is extended and returned.
Diff(p) ==
    /\ callpc = "running"
    /\ worker[p].pc = "diff"
    /\ LET w == worker[p]
           state == cs[ObjectOf(w.comparator)]
           errors == IF state = <<>> THEN ListRef(p, "df") ELSE state[1]
           before == IF state = <<>> THEN <<>> ELSE lists[errors]
       IN /\ lists' = Assign(lists, errors,
                         before \o DictDiff(p, sc.ref[p], sc.comp[p], w.kwargs))
          /\ worker' = [worker EXCEPT ![p].pc = "finish", ![p].diffs = errors]
    /\ UNCHANGED <<sc, apivars, asserting, asserted, cfg, style, export_formatted_files, registry, callpc, mode, start_method, sargs, chunk_sargs, psa,
                   comparators, files, cs, collected, different_files, pending,
                   returned, exported, calls>>

\* Lines 211-252 of __call__: the raw differences (the list object), or the
\* report of the formatted differences
Finish(p) ==
    /\ callpc = "running"
    /\ worker[p].pc = "finish"
    /\ LET w == worker[p]
       IN worker' = [worker EXCEPT
              ![p].pc = AfterCompare,
              ![p].res = IF sc.raw THEN PyListRef(w.diffs)
                         ELSE DiffMsg(p, FormattedDiffs(lists[w.diffs]),
                                      w.args, w.kwargs)]
    /\ UNCHANGED <<sc, apivars, asserting, asserted, cfg, style, export_formatted_files, registry, callpc, mode, start_method, sargs, chunk_sargs, psa,
                   comparators, files, cs, lists, collected, different_files,
                   pending, returned, exported, calls>>

\* Lines 465-471 and export_formatted_file: load, format_data (which sets
\* current_state["format_errors"] again) and save of the compared file
Export(p) ==
    /\ callpc = "running"
    /\ worker[p].pc = "export"
    /\ LET w == worker[p]
           out == ExportOutcome(w.comparator.kind, sc.comp[p])
       IN /\ worker' = [worker EXCEPT
                ![p].pc = "done",
                ![p].exc = IF out = "raise" THEN JsonError ELSE NoExc]
          /\ IF out = "write"
             THEN /\ lists' = Assign(lists, ListRef(p, "ex"), <<>>)
                  /\ cs' = Assign(cs, ObjectOf(w.comparator), <<ListRef(p, "ex")>>)
                  /\ exported' = exported
                                   \cup {<<FormattedSuffix(export_formatted_files), p>>}
             ELSE UNCHANGED <<lists, cs, exported>>
    /\ UNCHANGED <<sc, apivars, asserting, asserted, cfg, style, export_formatted_files, registry, callpc, mode, start_method, sargs, chunk_sargs, psa,
                   comparators, files, collected, different_files, pending,
                   returned, calls>>

\* ------------------------------------------------------------------------
\* Process pool: _compare_file_chunk in a worker process
\* ------------------------------------------------------------------------
StartMethods == {"fork", "spawn"}

\* _COMPARATORS as a worker process sees it: the parent's when forked, the
\* one the import of registry.py builds (line 53) when spawned
WorkerRegistry == IF start_method = "fork" THEN registry ELSE _DEFAULT_COMPARATORS

\* _compare_single_file on the worker's own copy of the configuration,
\* wrapped by the try/except of lines 518-525.  Every exception that can
\* escape _compare_single_file here has a printable text.
\* A variant without the try/except: the exception leaves the loop and no
\* result is appended for the file
ChunkFileNoCatch(p, sa, reg) ==
    IF ~CompFileExists(sc.comp, p)
    THEN [w |-> [IdleWorker EXCEPT !.pc = "done", !.res = MissingMsg(p)],
          sa |-> sa, wrote |-> FALSE]
    ELSE LET r == Resolve(p, sa, psa, comparators, reg)
             out == IF export_formatted_files = "False" THEN "skip"
                    ELSE ExportOutcome(r.comparator.kind, sc.comp[p])
             exc == IF r.exc # NoExc THEN r.exc
                    ELSE IF out = "raise" THEN JsonError ELSE NoExc
             res == IF exc # NoExc THEN PyFalse
                    ELSE CompareFiles(r.comparator.kind, p, sc.ref[p], sc.comp[p],
                                      r.args, r.kwargs, sc.raw)
         IN [w |-> [IdleWorker EXCEPT !.pc = "done", !.res = res, !.exc = exc,
                        !.comparator = r.comparator, !.args = r.args,
                        !.kwargs = r.kwargs, !.src = r.src, !.key = r.key],
             sa |-> r.sa,
             wrote |-> r.exc = NoExc /\ out = "write"]

ChunkFile(p, sa, reg) ==
    IF ~CompFileExists(sc.comp, p)
    THEN [w |-> [IdleWorker EXCEPT !.pc = "done", !.res = MissingMsg(p)],
          sa |-> sa, wrote |-> FALSE]
    ELSE LET r == Resolve(p, sa, psa, comparators, reg)
             out == IF export_formatted_files = "False" THEN "skip"
                    ELSE ExportOutcome(r.comparator.kind, sc.comp[p])
             res == IF r.exc # NoExc THEN ChunkErrorMsg(r.exc)
                    ELSE IF out = "raise" THEN ChunkErrorMsg(JsonError)
                    ELSE CompareFiles(r.comparator.kind, p, sc.ref[p], sc.comp[p],
                                      r.args, r.kwargs, sc.raw)
         IN [w |-> [IdleWorker EXCEPT !.pc = "done", !.res = res,
                        !.comparator = r.comparator, !.args = r.args,
                        !.kwargs = r.kwargs, !.src = r.src, !.key = r.key],
             sa |-> r.sa,
             wrote |-> r.exc = NoExc /\ out = "write"]

FileChunks == SplitIntoChunks(files, ActualMaxWorkers)

ChunkOf(p) == CHOOSE c \in DOMAIN FileChunks : InSeq(FileChunks[c], p)

ChunkStarted(c) == worker[FileChunks[c][1]].pc = "done"

ChunkDone(c) == worker[FileChunks[c][Len(FileChunks[c])]].pc = "done"

\* The pool runs the chunks in submission order, at most max_workers at a
\* time; a worker takes the files of its chunk in order (line 517).
MayProcess(p) ==
    /\ callpc = "running"
    /\ Branch(mode, files) = "process"
    /\ InSeq(files, p)
    /\ worker[p].pc = "idle"
    /\ LET c == ChunkOf(p)
           i == IndexOf(FileChunks[c], p)
       IN IF i > 1 THEN worker[FileChunks[c][i - 1]].pc = "done"
          ELSE /\ \A d \in 1..(c - 1) : ChunkStarted(d)
               /\ Cardinality({d \in DOMAIN FileChunks :
                                  ChunkStarted(d) /\ ~ChunkDone(d)}) < ActualMaxWorkers

\* One turn of the loop of lines 517-525 in the worker process of the chunk
ProcessFile(p) ==
    /\ MayProcess(p)
    /\ LET c == ChunkOf(p)
           one == ChunkFile(p, chunk_sargs[c], WorkerRegistry)
       IN /\ worker' = [worker EXCEPT ![p] = one.w]
          /\ chunk_sargs' = [chunk_sargs EXCEPT ![c] = one.sa]
          /\ exported' = IF one.wrote
                         THEN exported
                              \cup {<<FormattedSuffix(export_formatted_files), p>>}
                         ELSE exported
    /\ UNCHANGED <<sc, apivars, asserting, asserted, cfg, style, export_formatted_files, registry, callpc, mode, start_method, sargs, psa,
                   comparators, files, cs, lists, collected, different_files,
                   pending, returned, calls>>

\* Values stored by a truthiness test over several results (lines 642-644)
RECURSIVE StoreTruthy(_, _)
StoreTruthy(d, fs) ==
    IF fs = <<>> THEN d
    ELSE StoreTruthy(IF Truthy(worker[Head(fs)].res, lists)
                     THEN Assign(d, Head(fs), worker[Head(fs)].res) ELSE d,
                     Tail(fs))

\* Lines 639-647: the results of the next chunk are collected
CollectChunk ==
    /\ callpc = "running"
    /\ Branch(mode, files) = "process"
    /\ collected < Len(FileChunks)
    /\ LET chunk == FileChunks[collected + 1]
       IN /\ ChunkDone(collected + 1)
          /\ different_files' = StoreTruthy(different_files, chunk)
    /\ collected' = collected + 1
    /\ UNCHANGED <<sc, apivars, asserting, asserted, cfg, style, export_formatted_files, registry, callpc, mode, start_method, sargs, chunk_sargs, psa,
                   comparators, files, worker, cs, lists, pending, returned,
                   exported, calls>>

\* ------------------------------------------------------------------------
\* Collection of the results and end of compare_trees
\* ------------------------------------------------------------------------
ResolveValue(v) == IF v.t = "listref" THEN PyList(lists[v.ref]) ELSE v

Returned(d) == [kind |-> "returned", files |-> [p \in DOMAIN d |-> ResolveValue(d[p])]]

Raised(e) == [kind |-> "raised", exc |-> e]

\* sorted(different_files.items(), key=lambda x: x[0]): the paths of the
\* mapping in ascending order of the strings
RECURSIVE SortedPaths(_)
SortedPaths(S) ==
    IF S = {} THEN <<>>
    ELSE LET least == CHOOSE p \in S : \A q \in S : PathRank(p) <= PathRank(q)
         IN <<least>> \o SortedPaths(S \ {least})

\* str.join accepts str items only
IsStr(v) == v.t \in {"msg", "str"}

\* Lines 726-733 of assert_equal_trees: what the call does with the outcome
\* of compare_trees.  An exception of compare_trees propagates; the joined
\* message is kept as the separator and the sequence of the items.
AssertOutcome(out) ==
    IF out.kind = "raised" THEN out
    ELSE LET sorted_items == [i \in DOMAIN SortedPaths(DOMAIN out.files) |->
                                 out.files[SortedPaths(DOMAIN out.files)[i]]]
         IN IF Len(sorted_items) = 0 THEN [kind |-> "returned", value |-> TRUE]
            ELSE IF \A i \in DOMAIN sorted_items : IsStr(sorted_items[i])
            THEN [kind |-> "raised",
                  exc |-> [type |-> "AssertionError", sep |-> "\n\n\n",
                           items |-> sorted_items]]
            ELSE [kind |-> "raised",
                  exc |-> Exc("TypeError", "sequence item: expected str instance", TRUE)]

\* compare_trees ends with the outcome out: its locals are gone.  The
\* specific_args dict of a call made with cfg is cfg's own dict object: what
\* the call did to it stays.
EndCall(out) ==
    /\ returned' = [returned EXCEPT ![mode] = out]
    /\ cfg' = IF style = "kwargs" THEN cfg ELSE [cfg EXCEPT !.specific_args = sargs]
    /\ style' = "kwargs"
    /\ export_formatted_files' = "False"
    /\ asserted' = IF asserting.on
                   THEN [asserted EXCEPT ![mode] = AssertOutcome(out)]
                   ELSE asserted
    /\ asserting' = NotAsserting
    /\ callpc' = "idle"
    /\ mode' = "sequential"
    /\ start_method' = "fork"
    /\ sargs' = <<>>
    /\ chunk_sargs' = <<>>
    /\ psa' = <<>>
    /\ comparators' = <<>>
    /\ files' = <<>>
    /\ worker' = [p \in Paths |-> IdleWorker]
    /\ cs' = EmptyDict
    /\ lists' = EmptyDict
    /\ collected' = 0
    /\ different_files' = EmptyDict
    /\ pending' = NoExc
    /\ UNCHANGED <<sc, apivars, registry, exported, calls>>

\* Lines 680-689: the sequential loop stores the result of the file it has
\* just compared, or lets its exception propagate
StoreSequential ==
    /\ callpc = "running"
    /\ Branch(mode, files) = "sequential"
    /\ collected < Len(files)
    /\ LET p == files[collected + 1]
           w == worker[p]
       IN /\ w.pc = "done"
          /\ IF w.exc # NoExc
             THEN EndCall(Raised(w.exc))
             ELSE /\ different_files' = IF w.res # PyFalse
                                        THEN Assign(different_files, p, w.res)
                                        ELSE different_files
                  /\ collected' = collected + 1
                  /\ UNCHANGED <<sc, apivars, asserting, asserted, cfg, style, export_formatted_files, registry, callpc, mode, start_method, sargs,
                                 chunk_sargs, psa, comparators, files, worker, cs, lists,
                                 pending, returned, exported, calls>>

\* Lines 664-673: the result of the next future, in submission order; its
\* exception is re-raised
CollectThread ==
    /\ callpc = "running"
    /\ Branch(mode, files) = "thread"
    /\ pending = NoExc
    /\ collected < Len(files)
    /\ LET p == files[collected + 1]
           w == worker[p]
       IN /\ w.pc = "done"
          /\ IF w.exc # NoExc
             THEN /\ pending' = w.exc
                  /\ UNCHANGED <<different_files, collected>>
             ELSE /\ different_files' = IF Truthy(w.res, lists)
                                        THEN Assign(different_files, p, w.res)
                                        ELSE different_files
                  /\ collected' = collected + 1
                  /\ pending' = pending
    /\ UNCHANGED <<sc, apivars, asserting, asserted, cfg, style, export_formatted_files, registry, callpc, mode, start_method, sargs, chunk_sargs, psa,
                   comparators, files, worker, cs, lists, returned, exported,
                   calls>>

\* The with block of line 621 ends once every task has run; then the
\* exception leaves compare_trees
RaiseThread ==
    /\ callpc = "running"
    /\ pending # NoExc
    /\ \A i \in DOMAIN files : worker[files[i]].pc = "done"
    /\ EndCall(Raised(pending))

\* Line 691
Return ==
    /\ callpc = "running"
    /\ pending = NoExc
    /\ collected = (IF Branch(mode, files) = "process"
                    THEN Len(FileChunks) ELSE Len(files))
    /\ EndCall(Returned(different_files))

\* ------------------------------------------------------------------------
\* Inputs: trees, registries and keyword arguments
\* ------------------------------------------------------------------------
Tree(a, b, c) == [p \in Paths |-> CASE p = "a.json" -> a [] p = "b.json" -> b [] p = "c.dat" -> c]

\* The reference files in glob order
Walk(ref) == SelectSeq(<<"a.json", "b.json", "c.dat">>, LAMBDA p : ref[p] # Absent)

Scenario(ref, comp, include, exclude, sa, raw, export, max_workers, reg) ==
    [ref |-> ref, comp |-> comp, walk |-> Walk(ref), include |-> include,
     exclude |-> exclude, specific_args |-> sa, raw |-> raw, export |-> export,
     max_workers |-> max_workers, reg |-> reg]

\* Registries: the default one, after _COMPARATORS.pop(None), and after
\* register_comparator(".dat", <callable>)
NoDefaultRegistry == << <<".json", "JsonComparator">> >>

Registered(kind) == Append(_DEFAULT_COMPARATORS, <<".dat", kind>>)

Registries ==
    {_DEFAULT_COMPARATORS, NoDefaultRegistry} \cup {Registered(k) : k \in Callables}

\* Two .json files, every state of the compared side, an extra compared file
ContentScenarios ==
    {Scenario(Tree("v1", "v1", Absent), Tree(ca, cb, cc), <<>>, <<>>, <<>>,
              raw, export, 2, _DEFAULT_COMPARATORS) :
        ca \in Contents \cup {Absent}, cb \in {"v1", "v2", Absent},
        cc \in {Absent, "v1"}, raw \in BOOLEAN, export \in {"False", "True"}}

\* A .json and a .dat file under every registry
RegistryScenarios ==
    {Scenario(Tree("v1", Absent, "v1"), Tree("v2", Absent, cc), <<>>, <<>>, <<>>,
              raw, "False", 2, reg) :
        cc \in {"v1", "v2"}, raw \in BOOLEAN, reg \in Registries}

\* Three files and every worker count
WorkerScenarios ==
    {Scenario(Tree("v1", "v1", "v1"), Tree("v2", cb, cc), <<>>, <<>>, <<>>,
              raw, "False", mw, _DEFAULT_COMPARATORS) :
        cb \in {"v1", "v2"}, cc \in {"v1", Absent}, raw \in BOOLEAN, mw \in {0, 1, 2}}

\* specific_args literals: exact-path entries and pattern groups
AnyJson == <<"ANY", ".json">>

ExactEntry == [comparator |-> [inst |-> "DefaultComparator"], args |-> <<"None">>]

JsonGroup == [patterns |-> <<AnyJson>>, ignore |-> {"a", "b"}]

AGroup == [patterns |-> << <<"a">> >>, comparator |-> [inst |-> "DefaultComparator"]]

SpecificArgsChoices ==
    { << <<"a.json", ExactEntry>>, <<"all json", JsonGroup>> >>,
      << <<"all json", JsonGroup>>, <<"a.json", ExactEntry>> >>,
      << <<"a files", AGroup>>, <<"all json", JsonGroup>> >>,
      << <<"all json", JsonGroup>>, <<"a files", AGroup>> >>,
      << <<"g1", [patterns |-> <<AnyJson>>, args |-> <<"None">>]>>,
         <<"g2", [patterns |-> <<AnyJson>>,
                  comparator |-> [inst |-> "DefaultComparator"]]>> >>,
      << <<"a.json", [comparator |-> [name |-> "DefaultComparator"]]>> >>,
      << <<"a.json", [comparator |-> [inst |-> "bad_comparator"], ignore |-> {"a"}]>>,
         <<"b.json", [comparator |-> [name |-> "UnknownComparator"]]>> >>,
      << <<"b.json", [ignore |-> {"b"}]>>,
         <<"g", [patterns |-> << <<"b">>, <<"ANY">> >>,
                 comparator |-> [inst |-> "DefaultComparator"]]>> >> }

\* Two differing .json files under every specific_args literal
ArgScenarios ==
    {Scenario(Tree("v1", "v1", Absent), Tree("v2", "v2", Absent), <<>>, <<>>, sa,
              raw, "False", 2, _DEFAULT_COMPARATORS) :
        sa \in SpecificArgsChoices, raw \in BOOLEAN}

IncludeChoices ==
    {<<>>, <<AnyJson>>, << <<"a">> >>, << <<"c">>, <<"a">> >>, << <<"ANY", "$">> >>}

ExcludeChoices ==
    {<<>>, << <<"a">> >>, <<AnyJson>>, << <<"b">>, <<"c", ".dat", "$">> >>, << <<"ANY">> >>}

\* Three files (one differing, one missing, one equal or not) under every
\* filter
FilterScenarios ==
    {Scenario(Tree("v1", "v1", "v1"), Tree("v2", Absent, cc), inc, exc, <<>>,
              FALSE, "False", 2, _DEFAULT_COMPARATORS) :
        inc \in IncludeChoices, exc \in ExcludeChoices, cc \in {"v1", "v2"}}

\* A .json and a .dat file compared with the export of the formatted files
\* on, under the default suffix and under a given one, by one worker and by
\* two
ExportScenarios ==
    {Scenario(Tree("v1", Absent, "v1"), Tree(ca, Absent, cc), <<>>, <<>>, <<>>,
              FALSE, export, mw, _DEFAULT_COMPARATORS) :
        ca \in Contents, cc \in {"v1", "v2"}, export \in {"True", "_NEW_SUFFIX"},
        mw \in {1, 2}}

Scenarios ==
    ContentScenarios \cup RegistryScenarios \cup WorkerScenarios
    \cup ArgScenarios \cup FilterScenarios \cup ExportScenarios

InitOf(scenarios) ==
    /\ sc \in scenarios
    /\ cfg = NewConfig(sc.specific_args, sc.reg)
    /\ style = "kwargs"
    /\ export_formatted_files = "False"
    /\ pytest_trigger = NoTrigger
    /\ asserting = NotAsserting
    /\ asserted = [m \in ExecutorTypes |-> NoCall]
    /\ obtained = <<>>
    /\ result = NoResult
    /\ invocation = NoInvocation
    /\ callpc = "idle"
    /\ mode = "sequential"
    /\ start_method = "fork"
    /\ sargs = <<>>
    /\ chunk_sargs = <<>>
    /\ psa = <<>>
    /\ comparators = <<>>
    /\ files = <<>>
    /\ worker = [p \in Paths |-> IdleWorker]
    /\ cs = EmptyDict
    /\ lists = EmptyDict
    /\ collected = 0
    /\ different_files = EmptyDict
    /\ pending = NoExc
    /\ returned = [m \in ExecutorTypes |-> NoCall]
    /\ exported = {}
    /\ calls = 0

\* The registry is the one the scenario left behind; its objects are named
\* by their key (Instance), so no object needs a state of its own
Init ==
    /\ InitOf(Scenarios)
    /\ registry = sc.reg
    /\ objstate = EmptyDict

Next ==
    \/ \E m \in ExecutorTypes, sm \in StartMethods, st \in Styles :
          /\ (m # "process" => sm = "fork")
          /\ CompareTrees(m, sm, st)
    \/ \E p \in Paths : Begin(p)
    \/ \E p \in Paths : CallEnter(p)
    \/ \E p \in Paths : FormatData(p)
    \/ \E p \in Paths : Diff(p)
    \/ \E p \in Paths : Finish(p)
    \/ \E p \in Paths : Export(p)
    \/ \E p \in Paths : ProcessFile(p)
    \/ CollectChunk
    \/ StoreSequential
    \/ CollectThread
    \/ RaiseThread
    \/ Return

Spec == Init /\ [][Next]_vars

\* ------------------------------------------------------------------------
\* assert_equal_trees under the pytest plugin (core.py, pytest_plugin.py)
\* ------------------------------------------------------------------------
\* What the caller writes for export_formatted_files: nothing, or a value
AssertArgs == {"omitted", "False", "True", "_NEW_SUFFIX"}

\* --dcd-export-suffix: empty, or a suffix
ExportSuffixes == {"", "_CMD_SUFFIX"}

\* The value the function receives: the default of the keyword is False
Received(arg) == IF arg = "omitted" THEN "False" ELSE arg

\* Lines 713-720: the value assert_equal_trees passes to compare_trees
EffectiveExport(arg) ==
    IF Received(arg) = "False" /\ pytest_trigger.set
    THEN IF pytest_trigger.data
         THEN IF pytest_trigger.suffix # "" THEN pytest_trigger.suffix ELSE "True"
         ELSE "False"
    ELSE Received(arg)

\* pytest_configure: the options become attributes of assert_equal_trees,
\* before any test runs
PytestConfigure(data, suffix) ==
    /\ callpc = "idle"
    /\ calls = 0
    /\ ~pytest_trigger.set
    /\ pytest_trigger' = [set |-> TRUE, data |-> data, suffix |-> suffix]
    /\ UNCHANGED <<sc, objstate, obtained, result, invocation, asserting, asserted, cfg, style,
                   export_formatted_files, registry, callpc, mode, start_method,
                   sargs, chunk_sargs, psa, comparators, files, worker, cs, lists,
                   collected, different_files, pending, returned, exported, calls>>

\* assert_equal_trees(ref, comp, export_formatted_files=arg, **kwargs of sc)
AssertEqualTrees(m, sm, arg) ==
    /\ EnterCompareTrees(m, sm, "kwargs", EffectiveExport(arg))
    /\ asserting' = [on |-> TRUE, arg |-> arg]

\* assert_equal_trees(ref, comp, config=cfg, export_formatted_files=arg):
\* line 722 passes export_formatted_files to compare_trees whether the caller
\* gave it or not, so _check_config gets a config and a non-empty kwargs and
\* calls attrs.evolve(cfg, export_formatted_files=...).  The executor type is
\* the one cfg was built with, "sequential".
AssertEqualTreesConfig(arg) ==
    /\ EnterCompareTrees("sequential", "fork", "evolve", EffectiveExport(arg))
    /\ asserting' = [on |-> TRUE, arg |-> arg]

\* Two .json files, the compared side equal, different, unreadable or
\* missing; sc.export is the export_formatted_files cfg was built with
AssertScenarios ==
    {Scenario(Tree("v1", "v1", Absent), Tree(ca, cb, Absent), <<>>, <<>>, <<>>,
              raw, "False", 2, _DEFAULT_COMPARATORS) :
        ca \in {"v1", "v2", "bad"}, cb \in {"v1", "v2", Absent}, raw \in BOOLEAN}
    \cup {Scenario(Tree("v1", "v1", Absent), Tree(ca, "v1", Absent), <<>>, <<>>, <<>>,
                   FALSE, "True", 2, _DEFAULT_COMPARATORS) : ca \in {"v1", "v2"}}

AssertInit ==
    /\ InitOf(AssertScenarios)
    /\ registry = sc.reg
    /\ objstate = EmptyDict

AssertNext ==
    \/ \E data \in BOOLEAN, suffix \in ExportSuffixes : PytestConfigure(data, suffix)
    \/ \E m \in ExecutorTypes, sm \in StartMethods, arg \in AssertArgs :
          /\ (m # "process" => sm = "fork")
          /\ AssertEqualTrees(m, sm, arg)
    \/ \E arg \in AssertArgs : AssertEqualTreesConfig(arg)
    \/ \E p \in Paths : Begin(p)
    \/ \E p \in Paths : CallEnter(p)
    \/ \E p \in Paths : FormatData(p)
    \/ \E p \in Paths : Diff(p)
    \/ \E p \in Paths : Finish(p)
    \/ \E p \in Paths : Export(p)
    \/ \E p \in Paths : ProcessFile(p)
    \/ CollectChunk
    \/ StoreSequential
    \/ CollectThread
    \/ RaiseThread
    \/ Return

AssertSpec == AssertInit /\ [][AssertNext]_vars

\* ------------------------------------------------------------------------
\* The registry and configuration API (registry.py, util.py, core.py)
\* ------------------------------------------------------------------------
\* The variables the API never touches
enginevars ==
    <<sc, pytest_trigger, asserting, asserted, cfg, style, export_formatted_files,
      callpc, mode, start_method, sargs, chunk_sargs, psa, comparators, files,
      worker, cs, lists, collected, different_files, pending, returned, exported,
      calls>>

\* An extension is a sequence of pieces: a dot, a line break, or a run of
\* other characters
ExtInputs == { <<"json">>, <<".", "json">>, <<".", "dat", "\n", "x">> }

\* The string the pieces spell
RECURSIVE Str(_)
Str(pieces) == IF pieces = <<>> THEN "" ELSE Head(pieces) \o Str(Tail(pieces))

\* What (.*) matches at the start of the pieces: everything up to the first
\* line break
RECURSIVE Line(_)
Line(pieces) ==
    IF pieces = <<>> \/ Head(pieces) = "\n" THEN <<>>
    ELSE <<Head(pieces)>> \o Line(Tail(pieces))

\* format_ext: _ext_pattern.match(ext) with _ext_pattern = \.?(.*), then
\* "." + match.group(1)
format_ext(ext) ==
    <<".">> \o Line(IF ext # <<>> /\ Head(ext) = "." THEN Tail(ext) ELSE ext)

\* In this part an entry of a mapping of comparators is <<key, kind, object>>:
\* the object is <<owner, name>>, a plain function <<"func", its name>>.
\* _DEFAULT_COMPARATORS with its own objects:
DefaultObjects ==
    [i \in DOMAIN _DEFAULT_COMPARATORS |->
        <<_DEFAULT_COMPARATORS[i][1], _DEFAULT_COMPARATORS[i][2],
          <<"default", _DEFAULT_COMPARATORS[i][1]>> >>]

\* The comparators a caller registers: an instance of his own and a function
UserComparators ==
    { <<"JsonComparator", <<"user", "u1">> >>,
      <<"quiet_comparator", <<"func", "quiet_comparator">> >> }

IsFunction(obj) == obj[1] = "func"

\* copy.deepcopy of one object for a new owner: a function is copied by
\* reference, an instance becomes a new object
Copy(obj, owner) == IF IsFunction(obj) THEN obj ELSE <<owner, obj[2]>>

\* copy.deepcopy of a mapping: the mapping returned ...
Deepcopy(d, owner) ==
    [i \in DOMAIN d |-> <<d[i][1], d[i][2], Copy(d[i][3], owner)>>]

\* ... and the objects alive after it: the copies start with the attributes
\* of their originals; the copies the owner had before are gone
DeepcopyObjects(d, owner) ==
    LET instances == {i \in DOMAIN d : ~IsFunction(d[i][3])}
        fresh == {Copy(d[i][3], owner) : i \in instances}
        kept == {o \in DOMAIN objstate : o[1] # owner}
    IN [o \in kept \cup fresh |->
           IF o \in fresh
           THEN objstate[d[CHOOSE i \in instances : Copy(d[i][3], owner) = o][3]]
           ELSE objstate[o]]

\* BaseComparator.__eq__ compares the type and __dict__; functions compare
\* by identity.  What a mapping of comparators is equal to:
View(d) ==
    {<<d[i][1], d[i][2],
       IF IsFunction(d[i][3]) THEN d[i][3][2] ELSE objstate[d[i][3]]>> :
        i \in DOMAIN d}

\* _COMPARATORS[ext] = comparator
PutObject(d, k, kind, obj) ==
    IF k \in Keys(d)
    THEN [i \in DOMAIN d |-> IF d[i][1] = k THEN <<k, kind, obj>> ELSE d[i]]
    ELSE Append(d, <<k, kind, obj>>)

\* A variant of register_comparator that replaces an entry without force
RegisterAlwaysForce(reg, key, entry, force) ==
    [exc |-> NoExc, reg |-> PutObject(reg, key, entry[1], entry[2])]

\* register_comparator after format_ext: lines 91-97
Register(reg, key, entry, force) ==
    IF ~force /\ key \in Keys(reg)
    THEN [exc |-> Exc("ValueError", "already registered", TRUE), reg |-> reg]
    ELSE [exc |-> NoExc, reg |-> PutObject(reg, key, entry[1], entry[2])]

\* unregister_comparator after format_ext: lines 110-114
Unregister(reg, key, quiet) ==
    IF ~quiet /\ key \notin Keys(reg)
    THEN [exc |-> Exc("ValueError", "not registered", TRUE), value |-> NoObject,
          reg |-> reg]
    ELSE [exc |-> NoExc,
          value |-> IF key \in Keys(reg)
                    THEN LET i == CHOOSE j \in DOMAIN reg : reg[j][1] = key
                         IN <<reg[i][2], reg[i][3]>>
                    ELSE NoObject,
          reg |-> SelectSeq(reg, LAMBDA entry : entry[1] # key)]

RegisterComparator(ext, entry, force) ==
    LET key == Str(format_ext(ext))
        r == Register(registry, key, entry, force)
    IN /\ registry' = r.reg
       /\ result' = ApiCall("register", ext, key, force, NoKwargs, r.exc, entry)
       /\ UNCHANGED <<enginevars, invocation, objstate, obtained>>

UnregisterComparator(ext, quiet) ==
    LET key == Str(format_ext(ext))
        r == Unregister(registry, key, quiet)
    IN /\ registry' = r.reg
       /\ result' = ApiCall("unregister", ext, key, quiet, NoKwargs, r.exc, r.value)
       /\ UNCHANGED <<enginevars, invocation, objstate, obtained>>

\* A variant of reset_comparators that puts the default objects themselves
\* in the registry
ResetComparatorsShallow ==
    /\ registry' = DefaultObjects
    /\ objstate' = [o \in {x \in DOMAIN objstate : x[1] # "reg"} |-> objstate[o]]
    /\ result' = ApiCall("reset", <<>>, "", FALSE, NoKwargs, NoExc, NoObject)
    /\ UNCHANGED <<enginevars, invocation, obtained>>

\* reset_comparators: clear, then update with a deep copy of the defaults
ResetComparators ==
    /\ registry' = Deepcopy(DefaultObjects, "reg")
    /\ objstate' = DeepcopyObjects(DefaultObjects, "reg")
    /\ result' = ApiCall("reset", <<>>, "", FALSE, NoKwargs, NoExc, NoObject)
    /\ UNCHANGED <<enginevars, invocation, obtained>>

\* A variant of get_comparators that returns a shallow copy of the registry
GetComparatorsShallow ==
    /\ obtained' = registry
    /\ objstate' = [o \in {x \in DOMAIN objstate : x[1] # "got"} |-> objstate[o]]
    /\ result' = ApiCall("get", <<>>, "", FALSE, NoKwargs, NoExc, NoObject)
    /\ UNCHANGED <<enginevars, invocation, registry>>

\* get_comparators: a deep copy of the registry
GetComparators ==
    /\ obtained' = Deepcopy(registry, "got")
    /\ objstate' = DeepcopyObjects(registry, "got")
    /\ result' = ApiCall("get", <<>>, "", FALSE, NoKwargs, NoExc, NoObject)
    /\ UNCHANGED <<enginevars, invocation, registry>>

\* The instances the caller holds: his own, those of the mapping he
\* obtained, and the one unregister_comparator just returned
Held ==
    {<<"user", "u1">>}
    \cup {obtained[i][3] : i \in DOMAIN obtained}
    \cup (IF result.op = "unregister" THEN {result.value[2]} ELSE {})

\* The caller changes an attribute of an instance he holds
MutateStrategy(obj) ==
    /\ obj \in Held
    /\ obj \in DOMAIN objstate
    /\ objstate[obj] = "default"
    /\ objstate' = [objstate EXCEPT ![obj] = "changed"]
    /\ result' = ApiCall("mutate", <<>>, "", FALSE, NoKwargs, NoExc, <<"", obj>>)
    /\ UNCHANGED <<enginevars, invocation, registry, obtained>>

\* The caller changes the mapping he obtained: del mapping[k] when it holds
\* k, else mapping[k] = a function
ChangeObtained(k) ==
    /\ obtained # <<>>
    /\ obtained' = IF k \in Keys(obtained)
                   THEN SelectSeq(obtained, LAMBDA entry : entry[1] # k)
                   ELSE Append(obtained, <<k, "quiet_comparator",
                                           <<"func", "quiet_comparator">> >>)
    /\ result' = ApiCall("change", <<>>, k, FALSE, NoKwargs, NoExc, NoObject)
    /\ UNCHANGED <<enginevars, invocation, registry, objstate>>

\* re.compile fails on the pattern: "[" stands for a bracket never closed
IsValidRegex(pattern) == \A i \in DOMAIN pattern : pattern[i] # "["

\* _compile_pattern on a pattern that does not compile. The text is kept in
\* pieces: the prefix of the caller, the message, the pattern, the quote
InvalidPattern(prefix, pattern) ==
    Exc("ValueError", <<prefix, "Invalid regex pattern: '", Str(pattern), "'">>, TRUE)

\* _compile_patterns: the exception of the first pattern that does not
\* compile (NoExc if all do)
CompilePatterns(prefix, patterns) ==
    LET bad == {i \in DOMAIN patterns : ~IsValidRegex(patterns[i])}
    IN IF bad = {} THEN NoExc
       ELSE InvalidPattern(prefix, patterns[CHOOSE i \in bad : \A j \in bad : i <= j])

\* isinstance(args, dict): the other values of the model are lists
IsDict(v) == "t" \notin DOMAIN v

\* isinstance(comparator, BaseComparator) or callable(comparator)
IsComparator(kind) == kind \in BaseClasses \cup Callables

\* value.strip() of the validator of export_formatted_files
Strip(s) == IF s \in {" ", "  "} THEN "" ELSE s

\* isinstance(value, str) for a value of export_formatted_files
IsStrValue(v) == v \notin {"False", "True"}

\* A variant of the construction that leaves the patterns of the groups
\* uncompiled
ConstructLazyGroups(kw) ==
    IF kw.comparators.given
       /\ \E i \in DOMAIN kw.comparators.map : ~IsComparator(kw.comparators.map[i][2])
    THEN Exc("ValueError", <<"Comparator for extension must be a BaseComparator instance or callable">>, TRUE)
    ELSE IF \E i \in DOMAIN kw.specific_args : ~IsDict(kw.specific_args[i][2])
    THEN Exc("ValueError", <<"specific_args must be a dictionary">>, TRUE)
    ELSE IF IsStrValue(kw.export) /\ Strip(kw.export) = ""
    THEN Exc("ValueError", <<"export_formatted_files must be a non-empty string when provided as string">>, TRUE)
    ELSE IF CompilePatterns("Error in include_patterns: ", kw.include) # NoExc
    THEN CompilePatterns("Error in include_patterns: ", kw.include)
    ELSE CompilePatterns("Error in exclude_patterns: ", kw.exclude)

\* ComparisonConfig(**kw): the validators of the fields in the order of the
\* fields (comparators, specific_args, export_formatted_files), then
\* __attrs_post_init__ (include patterns, exclude patterns, the patterns of
\* the groups in the order of the entries).  The exception raised, NoExc
\* when the configuration is built.
Construct(kw) ==
    IF kw.comparators.given
       /\ \E i \in DOMAIN kw.comparators.map : ~IsComparator(kw.comparators.map[i][2])
    THEN Exc("ValueError", <<"Comparator for extension must be a BaseComparator instance or callable">>, TRUE)
    ELSE IF \E i \in DOMAIN kw.specific_args : ~IsDict(kw.specific_args[i][2])
    THEN Exc("ValueError", <<"specific_args must be a dictionary">>, TRUE)
    ELSE IF IsStrValue(kw.export) /\ Strip(kw.export) = ""
    THEN Exc("ValueError", <<"export_formatted_files must be a non-empty string when provided as string">>, TRUE)
    ELSE IF CompilePatterns("Error in include_patterns: ", kw.include) # NoExc
    THEN CompilePatterns("Error in include_patterns: ", kw.include)
    ELSE IF CompilePatterns("Error in exclude_patterns: ", kw.exclude) # NoExc
    THEN CompilePatterns("Error in exclude_patterns: ", kw.exclude)
    ELSE LET pairs == GroupPatterns(kw.specific_args)
         IN CompilePatterns("Error in specific_args patterns: ",
                            [i \in DOMAIN pairs |-> pairs[i][1]])

\* The keyword arguments tried: for each field a valid and an invalid value
ConfigInputs ==
    {[include |-> inc, exclude |-> exc, specific_args |-> sa,
      comparators |-> cmps, export |-> export] :
        inc \in {<<>>, <<AnyJson, <<"[", "a">> >>},
        exc \in {<< <<"a">> >>, << <<"[", "b">> >>},
        sa \in {<< <<"all json", JsonGroup>> >>,
                << <<"g", [patterns |-> << <<"a">>, <<"[", "c">> >>]>> >>,
                << <<"a.json", PyList(<<>>)>> >>},
        cmps \in {[given |-> FALSE, map |-> <<>>],
                  [given |-> TRUE, map |-> << <<".dat", "quiet_comparator">> >>],
                  [given |-> TRUE, map |-> << <<".json", "JsonComparator">>,
                                              <<".dat", "42">> >>]},
        export \in {"True", "_NEW_SUFFIX", "", " "}}

\* The configuration built from the keyword arguments.  Its specific_args is
\* the mapping object the caller gave, as __attrs_post_init__ leaves it.
Built(kw) ==
    IF Construct(kw) = NoExc THEN NewConfig(kw.specific_args, kw.comparators.map)
    ELSE NoObject

\* ComparisonConfig(**kw).  With no comparators given the configuration
\* takes get_comparators(): a copy nobody else holds.
NewComparisonConfig(kw) ==
    /\ result' = ApiCall("config", <<>>, "", FALSE, kw, Construct(kw), Built(kw))
    /\ UNCHANGED <<enginevars, invocation, registry, objstate, obtained>>

\* A second ComparisonConfig(**kw) by the caller of the first, with the same
\* objects as arguments: the specific_args mapping is as the first
\* construction left it.
NewComparisonConfigAgain ==
    /\ result.op = "config"
    /\ result.exc = NoExc
    /\ LET kw == [result.kw EXCEPT !.specific_args = result.value.specific_args]
       IN result' = ApiCall("config again", <<>>, "", FALSE, kw, Construct(kw),
                            [first |-> result.value, second |-> Built(kw)])
    /\ UNCHANGED <<enginevars, invocation, registry, objstate, obtained>>

\* The process after the import of the package: reset_comparators() has run
ApiInit ==
    /\ InitOf({Scenario(Tree("v1", Absent, Absent), Tree("v1", Absent, Absent),
                        <<>>, <<>>, <<>>, FALSE, "False", 1, _DEFAULT_COMPARATORS)})
    /\ registry = Deepcopy(DefaultObjects, "reg")
    /\ objstate = [o \in {<<"user", "u1">>}
                         \cup {DefaultObjects[i][3] : i \in DOMAIN DefaultObjects}
                         \cup {<<"reg", DefaultObjects[i][1]>> : i \in DOMAIN DefaultObjects}
                    |-> "default"]

ApiNext ==
    \/ \E ext \in ExtInputs, entry \in UserComparators, force \in BOOLEAN :
          RegisterComparator(ext, entry, force)
    \/ \E ext \in ExtInputs, quiet \in BOOLEAN : UnregisterComparator(ext, quiet)
    \/ ResetComparators
    \/ GetComparators
    \/ \E obj \in DOMAIN objstate : MutateStrategy(obj)
    \/ ChangeObtained(".json")

ApiSpec == ApiInit /\ [][ApiNext]_vars

\* The construction of configurations alone
ConfigNext ==
    \/ \E kw \in ConfigInputs : NewComparisonConfig(kw)
    \/ NewComparisonConfigAgain

ConfigSpec == ApiInit /\ [][ConfigNext]_vars

\* ------------------------------------------------------------------------
\* BaseComparator.__call__ stage by stage (base_comparators.py)
\* ------------------------------------------------------------------------
\* What the diff stage of the strategy returns: False, True, an empty list,
\* a list of entries, an empty mapping, a mapping
DiffOutputs ==
    {PyFalse, PyTrue, PyList(<<>>), PyList(<<"e1">>), PyList(<<"e2", "e1">>),
     [t |-> "dict", items |-> <<>>],
     [t |-> "dict", items |-> << <<"k2", "v2">>, <<"k1", "v1">> >>]}

\* not diffs
IsEmptyDiff(d) == d = PyFalse \/ (d.t \in {"list", "dict"} /\ d.items = <<>>)

\* The elements the comprehension of lines 219-233 visits: the items of a
\* mapping, else the entries
Elements(d) ==
    IF d.t = "dict" THEN [i \in DOMAIN d.items |-> <<"item", d.items[i][1], d.items[i][2]>>]
    ELSE [i \in DOMAIN d.items |-> <<"entry", d.items[i]>>]

\* A variant of the call that filters and formats whatever diff returned
NextStageAlwaysFilter(inv) ==
    LET did(stage) == Append(inv.log, stage)
    IN CASE inv.pc = "reset" ->
               [inv EXCEPT !.pc = "load_ref", !.log = did(<<"reset">>)]
         [] inv.pc = "load_ref" ->
               [inv EXCEPT !.pc = "load_comp", !.log = did(<<"load", "ref_file">>)]
         [] inv.pc = "load_comp" ->
               [inv EXCEPT !.pc = "format_data", !.log = did(<<"load", "comp_file">>)]
         [] inv.pc = "format_data" ->
               [inv EXCEPT !.pc = "diff", !.log = did(<<"format_data", "comp", "ref">>)]
         [] inv.pc = "diff" ->
               [inv EXCEPT !.log = did(<<"diff", "ref", "formatted_comp">>),
                           !.diffs = inv.out,
                           !.pc = IF inv.raw THEN "returned" ELSE "filter",
                           !.value = IF inv.raw THEN inv.out ELSE inv.value]
         [] inv.pc = "filter" ->
               [inv EXCEPT !.log = did(<<"filter">>),
                           !.todo = IF inv.diffs.t = "bool" THEN <<>> ELSE Elements(inv.diffs),
                           !.pc = IF inv.diffs.t = "bool" \/ inv.diffs.items = <<>>
                                  THEN "sort" ELSE "format_diff"]
         [] inv.pc = "format_diff" ->
               [inv EXCEPT !.log = did(<<"format_diff", Head(inv.todo)>>),
                           !.todo = Tail(inv.todo),
                           !.pc = IF Tail(inv.todo) = <<>> THEN "sort" ELSE "format_diff"]
         [] inv.pc = "sort" ->
               [inv EXCEPT !.pc = "concatenate", !.log = did(<<"sort">>)]
         [] inv.pc = "concatenate" ->
               [inv EXCEPT !.pc = "report", !.log = did(<<"concatenate">>),
                           !.formatted = PyStr("concatenated")]
         [] inv.pc = "report" ->
               [inv EXCEPT !.pc = "returned", !.log = did(<<"report", inv.formatted>>),
                           !.value = PyStr("report")]

\* Lines 197-252 of __call__: the stage inv.pc runs, with its data
\* arguments, and the position after it.  inv.out is what the diff stage of
\* the strategy returns, inv.raw is return_raw_diffs.
NextStage(inv) ==
    LET did(stage) == Append(inv.log, stage)
    IN CASE inv.pc = "reset" ->
               [inv EXCEPT !.pc = "load_ref", !.log = did(<<"reset">>)]
         [] inv.pc = "load_ref" ->
               [inv EXCEPT !.pc = "load_comp", !.log = did(<<"load", "ref_file">>)]
         [] inv.pc = "load_comp" ->
               [inv EXCEPT !.pc = "format_data", !.log = did(<<"load", "comp_file">>)]
         [] inv.pc = "format_data" ->
               [inv EXCEPT !.pc = "diff", !.log = did(<<"format_data", "comp", "ref">>)]
         [] inv.pc = "diff" ->
               [inv EXCEPT !.log = did(<<"diff", "ref", "formatted_comp">>),
                           !.diffs = inv.out,
                           !.pc = IF inv.raw THEN "returned"
                                  ELSE IF IsEmptyDiff(inv.out) \/ inv.out = PyTrue
                                  THEN "report" ELSE "filter",
                           !.formatted = IF inv.raw THEN inv.formatted
                                         ELSE IF IsEmptyDiff(inv.out) THEN PyFalse
                                         ELSE IF inv.out = PyTrue THEN PyTrue
                                         ELSE inv.formatted,
                           !.value = IF inv.raw THEN inv.out ELSE inv.value]
         [] inv.pc = "filter" ->
               [inv EXCEPT !.log = did(<<"filter">>),
                           !.todo = Elements(inv.diffs),
                           !.pc = "format_diff"]
         [] inv.pc = "format_diff" ->
               [inv EXCEPT !.log = did(<<"format_diff", Head(inv.todo)>>),
                           !.todo = Tail(inv.todo),
                           !.pc = IF Tail(inv.todo) = <<>> THEN "sort" ELSE "format_diff"]
         [] inv.pc = "sort" ->
               [inv EXCEPT !.pc = "concatenate", !.log = did(<<"sort">>)]
         [] inv.pc = "concatenate" ->
               [inv EXCEPT !.pc = "report", !.log = did(<<"concatenate">>),
                           !.formatted = PyStr("concatenated")]
         [] inv.pc = "report" ->
               [inv EXCEPT !.pc = "returned", !.log = did(<<"report", inv.formatted>>),
                           !.value = PyStr("report")]

\* comparator(ref_file, comp_file, return_raw_diffs=raw) is called
StartInvocation(out, raw) ==
    /\ invocation.pc \in {"idle", "returned"}
    /\ invocation' = [NoInvocation EXCEPT !.pc = "reset", !.out = out, !.raw = raw]
    /\ UNCHANGED <<enginevars, registry, objstate, obtained, result>>

\* The call runs its next stage
RunStage ==
    /\ invocation.pc \notin {"idle", "returned"}
    /\ invocation' = NextStage(invocation)
    /\ UNCHANGED <<enginevars, registry, objstate, obtained, result>>

StrategyNext ==
    \/ \E out \in DiffOutputs, raw \in BOOLEAN : StartInvocation(out, raw)
    \/ RunStage

StrategySpec == Init /\ [][StrategyNext]_vars

\* ------------------------------------------------------------------------
\* _split_into_chunks called on its own (core.py)
\* ------------------------------------------------------------------------
MaxItems == 7
MinChunks == 0 - 1
MaxChunks == 8

RECURSIVE Orderings(_)
Orderings(S) ==
    IF S = {} THEN {<<>>}
    ELSE UNION {{<<x>> \o o : o \in Orderings(S \ {x})} : x \in S}

\* The lists of collected files: in any order of the walk, of every length
\* up to MaxItems
ItemLists ==
    UNION {Orderings(S) : S \in SUBSET Paths}
    \cup {[i \in 1..n |-> Str(<<"f", CASE i = 1 -> "1" [] i = 2 -> "2" [] i = 3 -> "3"
                                      [] i = 4 -> "4" [] i = 5 -> "5" [] i = 6 -> "6"
                                      [] i = 7 -> "7">>)] : n \in 0..MaxItems}

Split(items, num_chunks) ==
    /\ result' = ApiCall("split", <<>>, "", FALSE,
                         [items |-> items, num_chunks |-> num_chunks],
                         NoExc, SplitIntoChunks(items, num_chunks))
    /\ UNCHANGED <<enginevars, invocation, registry, objstate, obtained>>

ChunkNext ==
    \E items \in ItemLists, num_chunks \in MinChunks..MaxChunks : Split(items, num_chunks)

ChunkInit ==
    /\ InitOf({Scenario(Tree("v1", Absent, Absent), Tree("v1", Absent, Absent),
                        <<>>, <<>>, <<>>, FALSE, "False", 1, _DEFAULT_COMPARATORS)})
    /\ registry = _DEFAULT_COMPARATORS
    /\ objstate = EmptyDict

ChunkSpec == ChunkInit /\ [][ChunkNext]_vars

\* ------------------------------------------------------------------------
\* pick_comparator called on its own (core.py)
\* ------------------------------------------------------------------------
\* The comparator argument: none, a strategy instance, a plain function, the
\* name of a class of the mapping, a name of no class
PickOverrides ==
    {NoOverride, [inst |-> "DefaultComparator"], [inst |-> "quiet_comparator"],
     [name |-> "JsonComparator"], [name |-> "UnknownComparator"]}

PickSuffixes == {".json", ".dat", ".txt"}

\* The comparators argument: the defaults; a mapping with a default entry of
\* its own and two strategies of one class; one with a null entry; one
\* without default entry
PickMappings ==
    {_DEFAULT_COMPARATORS,
     << <<NoneKey, "quiet_comparator">>, <<".dat", "JsonComparator">>,
        <<".json", "JsonComparator">> >>,
     << <<".json", NullEntry>>, <<NoneKey, "JsonComparator">> >>,
     << <<".dat", "DefaultComparator">> >>}

\* pick_comparator(comparator=override, suffix=suffix, comparators=cmps)
Pick(override, suffix, cmps) ==
    LET r == PickComparator(override, <<"arg", "">>, suffix, cmps, registry)
    IN /\ result' = ApiCall("pick", <<>>, "", FALSE,
                            [override |-> override, suffix |-> suffix,
                             comparators |-> cmps],
                            r.exc, r.comparator)
       /\ UNCHANGED <<enginevars, invocation, registry, objstate, obtained>>

\* The registry is the default one, or has lost or nulled its default entry
PickInit ==
    /\ InitOf({Scenario(Tree("v1", Absent, Absent), Tree("v1", Absent, Absent),
                        <<>>, <<>>, <<>>, FALSE, "False", 1, _DEFAULT_COMPARATORS)})
    /\ registry \in {_DEFAULT_COMPARATORS, NoDefaultRegistry,
                      << <<NoneKey, NullEntry>>, <<".json", "JsonComparator">> >>}
    /\ objstate = EmptyDict

PickNext ==
    \E override \in PickOverrides, suffix \in PickSuffixes, cmps \in PickMappings :
        Pick(override, suffix, cmps)

PickSpec == PickInit /\ [][PickNext]_vars

\* ------------------------------------------------------------------------
\* Properties
\* ------------------------------------------------------------------------
\* The file is ignorable: it matches an exclude pattern, or the include list
\* is not empty and none of its patterns matches
Excluded(p) == \E i \in DOMAIN sc.exclude : PatternMatch(sc.exclude[i], p)

Included(p) == \E i \in DOMAIN sc.include : PatternMatch(sc.include[i], p)

Ignorable(p) == Excluded(p) \/ (sc.include # <<>> /\ ~Included(p))

\* The file is compared by a call: it is in the reference tree, not ignorable
Considered(p) == sc.ref[p] # Absent /\ ~Ignorable(p)

OnBothSides(p) == Considered(p) /\ sc.comp[p] # Absent

\* The strategy the registry gives to a file without override ("" if none)
RegisteredKind(p) ==
    IF Suffix(p) \in Keys(sc.reg) THEN Value(sc.reg, Suffix(p))
    ELSE IF NoneKey \in Keys(sc.reg) THEN Value(sc.reg, NoneKey)
    ELSE ""

\* The exception the registered strategy raises on the file (NoExc if none)
StrategyException(p) ==
    LET kind == RegisteredKind(p)
    IN IF kind \in Callables THEN CallableResult(kind, p, sc.ref[p], sc.comp[p]).exc
       ELSE IF LoadRaises(kind, sc.ref[p]) \/ LoadRaises(kind, sc.comp[p])
       THEN JsonError
       ELSE NoExc

NoDefaultError == Exc("RuntimeError", "No default comparator available", TRUE)

\* The groups of specific_args (indexes) with a pattern matching the file
MatchingGroups(p) ==
    {i \in DOMAIN sc.specific_args :
        /\ "patterns" \in DOMAIN sc.specific_args[i][2]
        /\ \E j \in DOMAIN sc.specific_args[i][2].patterns :
              PatternMatch(sc.specific_args[i][2].patterns[j], p)}

HasExactEntry(p) ==
    \E i \in DOMAIN sc.specific_args :
        /\ sc.specific_args[i][1] = p
        /\ "patterns" \notin DOMAIN sc.specific_args[i][2]

\* The file has been resolved by the running call with the strategy and the
\* arguments the entry gives
ResolvedWith(p, entry) ==
    LET w == worker[p]
        override == IF "comparator" \in DOMAIN entry THEN entry.comparator
                    ELSE NoOverride
        expected == PickComparator(override, <<"", "">>, Suffix(p), sc.reg, sc.reg)
    IN /\ w.exc = expected.exc
       /\ w.comparator.kind = expected.comparator.kind
       /\ w.args = (IF "args" \in DOMAIN entry THEN entry.args ELSE <<>>)
       /\ w.kwargs = Pop(Pop(Pop(entry, "patterns"), "comparator"), "args")

Resolved(p) ==
    callpc = "running" /\ worker[p].pc # "idle" /\ sc.comp[p] # Absent

\* C1: for fixed trees and a fixed configuration, the calls with the three
\* executor types end with the same outcome: the same keys and the same
\* value for every key.
C1_CrossModeEquivalence ==
    \A m1, m2 \in ExecutorTypes :
        (returned[m1] # NoCall /\ returned[m2] # NoCall)
            => returned[m1] = returned[m2]

\* C2: no value of a returned mapping is False or empty (empty string,
\* empty list, None).
C2_NoFalsyValueStored ==
    \A m \in ExecutorTypes :
        returned[m].kind = "returned"
            => \A p \in DOMAIN returned[m].files :
                   Truthy(returned[m].files[p], EmptyDict)

\* C3: when the compared tree holds the files of the reference tree with
\* identical contents, every call returns the empty mapping.
C3_IdenticalTreesEmptyMapping ==
    (\A p \in Paths : sc.comp[p] = sc.ref[p])
        => \A m \in ExecutorTypes :
               returned[m] # NoCall => returned[m] = Returned(EmptyDict)

\* C4: a considered reference file absent from the compared root gets
\* exactly the "does not exist" message, without any strategy resolved or
\* invoked and without exception; a file that exists only in the compared
\* tree never gets an entry.
C4_MissingFileMessage ==
    \A p \in Paths :
        /\ (callpc = "running" /\ sc.comp[p] = Absent)
              => /\ worker[p].pc \in {"idle", "done"}
                 /\ worker[p].comparator = NoInstance
                 /\ worker[p].exc = NoExc
                 /\ worker[p].pc = "done" => worker[p].res = MissingMsg(p)
        /\ \A m \in ExecutorTypes :
              returned[m].kind = "returned"
                 => /\ (Considered(p) /\ sc.comp[p] = Absent)
                          => /\ p \in DOMAIN returned[m].files
                             /\ returned[m].files[p] = MissingMsg(p)
                    /\ sc.ref[p] = Absent => p \notin DOMAIN returned[m].files

\* A call returned a mapping holding the message of a missing file while the
\* compared tree holds a file the reference tree lacks
C4_Witness ==
    \E m \in ExecutorTypes, p, q \in Paths :
        /\ returned[m].kind = "returned"
        /\ Considered(p) /\ sc.comp[p] = Absent
        /\ p \in DOMAIN returned[m].files
        /\ returned[m].files[p] = MissingMsg(p)
        /\ sc.ref[q] = Absent /\ sc.comp[q] # Absent

\* C5: when the strategy of a file raises while comparing it, the call still
\* returns a mapping, which holds for the file the "Exception raised" message
\* with the type and the text of the exception.
C5_StrategyExceptionReported ==
    \A m \in ExecutorTypes, p \in Paths :
        (/\ returned[m] # NoCall
         /\ sc.specific_args = <<>>
         /\ OnBothSides(p)
         /\ StrategyException(p) # NoExc)
            => /\ returned[m].kind = "returned"
               /\ p \in DOMAIN returned[m].files
               /\ returned[m].files[p] =
                     DiffMsg(p, ExceptionReason(StrategyException(p)), <<>>, EmptyDict)

\* C6: when no strategy can be resolved for a file present on both sides,
\* the call raises the "No default comparator available" RuntimeError, in
\* every executor mode.
C6_ResolutionErrorRaised ==
    \A m \in ExecutorTypes :
        (/\ returned[m] # NoCall
         /\ sc.specific_args = <<>>
         /\ \E p \in Paths : OnBothSides(p) /\ RegisteredKind(p) = "")
            => returned[m] = Raised(NoDefaultError)

\* C7: in thread mode the differences reported for a file compared by a
\* shared JsonComparator are those reported when the file is compared alone,
\* under every interleaving.
C7_NoLeakBetweenThreads ==
    \A p \in Paths :
        (/\ callpc = "running"
         /\ Branch(mode, files) = "thread"
         /\ worker[p].pc = "done"
         /\ worker[p].exc = NoExc
         /\ worker[p].comparator.kind = "JsonComparator")
            => ResolveValue(worker[p].res) =
                   CompareFiles("JsonComparator", p, sc.ref[p], sc.comp[p],
                                worker[p].args, worker[p].kwargs, sc.raw)

\* C8: a file with an exact-path entry and a pattern group matching its path
\* is compared with the strategy and the arguments of the exact-path entry
\* (as the configuration of the call holds it when the call starts); the
\* group's arguments are not applied.
C8_ExactPathWins ==
    \A p \in Paths :
        (Resolved(p) /\ HasExactEntry(p) /\ MatchingGroups(p) # {})
            => ResolvedWith(p, Value(CheckConfig(style).specific_args, p))

\* A file with an exact-path entry and a matching pattern group has been
\* compared, the two giving different arguments
C8_Witness ==
    \E p \in Paths :
        /\ Resolved(p) /\ worker[p].pc = "done"
        /\ HasExactEntry(p)
        /\ \E i \in MatchingGroups(p) : ~ResolvedWith(p, sc.specific_args[i][2])

\* C9: a file without exact-path entry whose path matches patterns of two
\* groups is compared with the arguments of the group declared first in
\* specific_args, also when the groups list the same regex string.
C9_FirstDeclaredGroupWins ==
    \A p \in Paths :
        (Resolved(p) /\ ~HasExactEntry(p) /\ Cardinality(MatchingGroups(p)) >= 2)
            => LET first == CHOOSE i \in MatchingGroups(p) :
                                \A j \in MatchingGroups(p) : i <= j
               IN ResolvedWith(p, sc.specific_args[first][2])

\* C10: an ignorable reference file is never compared and never gets an
\* entry, whatever its state in the compared tree; every other reference
\* file is considered.
C10_IgnoredFilesHaveNoEntry ==
    \A p \in Paths :
        /\ Ignorable(p)
              => /\ worker[p].pc = "idle"
                 /\ ~InSeq(files, p)
                 /\ p \notin DOMAIN different_files
                 /\ \A m \in ExecutorTypes :
                       returned[m].kind = "returned"
                           => p \notin DOMAIN returned[m].files
        /\ (callpc = "running" /\ Considered(p)) => InSeq(files, p)

\* A call returned while a differing file matching both an include and an
\* exclude pattern, and a missing file matching no include pattern, were
\* ignored and another file was reported
C10_Witness ==
    \E m \in ExecutorTypes, p, q \in Paths :
        /\ returned[m].kind = "returned"
        /\ sc.ref[p] # Absent /\ sc.comp[p] \notin {Absent, sc.ref[p]}
        /\ Included(p) /\ Excluded(p)
        /\ sc.ref[q] # Absent /\ sc.comp[q] = Absent /\ ~Included(q)
        /\ DOMAIN returned[m].files # {}

\* C11: a call given a config object and keyword overrides (here
\* executor_type) uses the keyword value for the overridden field and, for
\* the rest, behaves like the supplied config: same filtering, same
\* comparators, and every file resolved with the per-path and pattern-group
\* overrides the supplied config gives it.
C11_EvolveKeepsConfig ==
    (callpc = "running" /\ style = "evolve")
        => /\ files = CollectFilesToCompare(sc.walk, sc.include, sc.exclude)
           /\ comparators = cfg.comparators
           /\ \A p \in Paths :
                 Resolved(p)
                    => LET r == Resolve(p, cfg.specific_args, cfg.pattern_specific_args,
                                        cfg.comparators, registry)
                           w == worker[p]
                       IN /\ w.exc = r.exc
                          /\ w.comparator.kind = r.comparator.kind
                          /\ w.args = r.args
                          /\ w.kwargs = r.kwargs

\* C12: compare_trees never changes the configuration it is given: the
\* specific_args and the pattern-group overrides of the caller's config are
\* at all times what they were right after construction.
C12_ConfigUnchanged ==
    cfg = NewConfig(sc.specific_args, sc.reg)

\* C18: with return_raw_diffs=True the value a strategy invocation returns
\* is the output of its diff stage (the list object DictComparator.diff
\* returns, the boolean DefaultComparator.diff returns), never a report, and
\* the value compare_trees stores for a file is the value its invocation
\* returned.
C18_RawDiffsBypass ==
    \A p \in Paths :
        LET w == worker[p]
        IN /\ (/\ callpc = "running" /\ sc.raw
               /\ w.pc = "done" /\ w.exc = NoExc
               /\ IsBaseComparator(w.comparator.kind)
               /\ ~LoadRaises(w.comparator.kind, sc.ref[p])
               /\ ~LoadRaises(w.comparator.kind, sc.comp[p]))
                  => IF w.comparator.kind = "JsonComparator"
                     THEN IF Branch(mode, files) = "process"
                          THEN w.res = PyList(DictDiff(p, sc.ref[p], sc.comp[p], w.kwargs))
                          ELSE w.res = PyListRef(w.diffs)
                     ELSE w.res = [t |-> "bool", b |-> BinaryDiff(sc.ref[p], sc.comp[p])]
           /\ p \in DOMAIN different_files => different_files[p] = w.res

\* In raw mode a differing .json file and a differing file compared by the
\* DefaultComparator have their diff outputs stored
C18_Witness ==
    \E p, q \in Paths :
        /\ callpc = "running" /\ sc.raw
        /\ p \in DOMAIN different_files
        /\ worker[p].comparator.kind = "JsonComparator"
        /\ ResolveValue(different_files[p]).t = "list"
        /\ ResolveValue(different_files[p]).items # <<>>
        /\ q \in DOMAIN different_files
        /\ different_files[q] = PyTrue

\* The item of the mapping whose path has exactly n smaller paths in it
NthByPath(d, n) ==
    d[CHOOSE p \in DOMAIN d :
          Cardinality({q \in DOMAIN d : PathRank(q) < PathRank(p)}) = n]

\* C19: assert_equal_trees returns True when the mapping of compare_trees is
\* empty; otherwise it raises one AssertionError whose text is the messages
\* of the files, in ascending order of the paths, joined by three newlines,
\* whatever the executor type.
C19_AssertionOrdered ==
    \A m \in ExecutorTypes :
        (asserted[m] # NoCall /\ returned[m].kind = "returned") =>
            IF DOMAIN returned[m].files = {}
            THEN asserted[m] = [kind |-> "returned", value |-> TRUE]
            ELSE /\ asserted[m].kind = "raised"
                 /\ asserted[m].exc.type = "AssertionError"
                 /\ asserted[m].exc.sep = "\n\n\n"
                 /\ Len(asserted[m].exc.items) = Cardinality(DOMAIN returned[m].files)
                 /\ \A i \in DOMAIN asserted[m].exc.items :
                        asserted[m].exc.items[i] = NthByPath(returned[m].files, i - 1)

\* C20: assert_equal_trees applies the export trigger of pytest (and its
\* suffix) only when the caller did not pass export_formatted_files; a value
\* the caller passed, an explicit False included, is the one compare_trees
\* receives.
C20_ExplicitExportWins ==
    (callpc = "running" /\ asserting.on) =>
        IF asserting.arg = "omitted"
        THEN export_formatted_files =
                 (IF pytest_trigger.set /\ pytest_trigger.data
                  THEN IF pytest_trigger.suffix # "" THEN pytest_trigger.suffix ELSE "True"
                  ELSE "False")
        ELSE export_formatted_files = asserting.arg

\* Some pattern of the sequence is not a regular expression
HasBadRegex(patterns) ==
    \E i \in DOMAIN patterns : \E j \in DOMAIN patterns[i] : patterns[i][j] = "["

\* The patterns the keyword arguments hold: include, exclude and groups
AllPatterns(kw) ==
    {kw.include[i] : i \in DOMAIN kw.include}
    \cup {kw.exclude[i] : i \in DOMAIN kw.exclude}
    \cup UNION {{kw.specific_args[i][2].patterns[j] :
                     j \in DOMAIN kw.specific_args[i][2].patterns} :
                 i \in {n \in DOMAIN kw.specific_args :
                            "patterns" \in DOMAIN kw.specific_args[n][2]}}

\* The keyword arguments are wrong in shape: an entry of specific_args that
\* is no mapping, a comparator of the comparators mapping that is neither a
\* strategy nor a callable, a blank export suffix
BadShape(kw) ==
    \/ \E i \in DOMAIN kw.specific_args : "t" \in DOMAIN kw.specific_args[i][2]
    \/ kw.comparators.given
       /\ \E i \in DOMAIN kw.comparators.map :
              kw.comparators.map[i][2] \notin BaseClasses \cup Callables
    \/ kw.export \in {"", " "}

\* C13: ComparisonConfig(...) with an invalid regular expression (include,
\* exclude or group patterns), a specific_args entry that is no mapping, a
\* comparator that is neither a strategy nor a callable, or a blank export
\* suffix raises ValueError (so no configuration exists that compare_trees
\* could fail on later); the text of an invalid-regex error holds the
\* pattern; arguments with none of these build the configuration.
C13_InvalidConfigRejected ==
    result.op = "config" =>
        LET kw == result.kw
            bad_regex == {p \in AllPatterns(kw) : \E j \in DOMAIN p : p[j] = "["}
        IN /\ (BadShape(kw) \/ bad_regex # {}) => result.exc.type = "ValueError"
           /\ (~BadShape(kw) /\ bad_regex # {}) =>
                  \E p \in bad_regex, n \in DOMAIN result.exc.text :
                      result.exc.text[n] = Str(p)
           /\ (~BadShape(kw) /\ bad_regex = {}) => result.exc = NoExc

\* A configuration whose only fault is a pattern of a group was rejected
C13_Witness ==
    /\ result.op = "config"
    /\ ~BadShape(result.kw)
    /\ ~HasBadRegex(result.kw.include) /\ ~HasBadRegex(result.kw.exclude)
    /\ result.exc.type = "ValueError"
    /\ \E n \in DOMAIN result.exc.text : result.exc.text[n] = "[c"

\* The kind and the object the mapping holds under the key
EntryOf(d, k) ==
    LET i == CHOOSE j \in DOMAIN d : d[j][1] = k IN <<d[i][2], d[i][3]>>

\* C14: register_comparator on a registered extension without force raises
\* ValueError and leaves the registry as it was; with force, or on a free
\* extension, it sets that entry and no other.  unregister_comparator on an
\* unregistered extension raises ValueError without quiet and returns None
\* with quiet, the registry unchanged; on a registered one it removes that
\* entry and no other and returns the strategy removed.
C14_RegisterUnregister ==
    [][LET k == result'.key
           others == (Keys(registry) \cup Keys(registry')) \ {k}
           kept == \A q \in others :
                       /\ q \in Keys(registry) /\ q \in Keys(registry')
                       /\ EntryOf(registry, q) = EntryOf(registry', q)
       IN /\ result'.op = "register" =>
                 IF ~result'.flag /\ k \in Keys(registry)
                 THEN result'.exc.type = "ValueError" /\ registry' = registry
                 ELSE /\ result'.exc = NoExc
                      /\ k \in Keys(registry')
                      /\ EntryOf(registry', k) = result'.value
                      /\ kept
          /\ result'.op = "unregister" =>
                 IF k \notin Keys(registry)
                 THEN /\ registry' = registry
                      /\ result'.value = NoObject
                      /\ IF result'.flag THEN result'.exc = NoExc
                         ELSE result'.exc.type = "ValueError"
                 ELSE /\ result'.exc = NoExc
                      /\ result'.value = EntryOf(registry, k)
                      /\ k \notin Keys(registry')
                      /\ kept]_vars

\* A registration without force was refused: the extension still has the
\* default strategy
C14_Witness ==
    /\ result.op = "register" /\ ~result.flag
    /\ result.exc.type = "ValueError"
    /\ EntryOf(registry, result.key) = <<"JsonComparator", <<"reg", ".json">> >>

\* The default mapping as built: each default kind with untouched attributes
BuiltInDefaults ==
    {<<_DEFAULT_COMPARATORS[i][1], _DEFAULT_COMPARATORS[i][2], "default">> :
        i \in DOMAIN _DEFAULT_COMPARATORS}

\* C15: after any sequence of registrations, removals and changes of
\* strategies obtained from or registered in the registry,
\* reset_comparators() leaves a registry equal to the built-in defaults.
C15_ResetRestoresDefaults ==
    result.op = "reset" => View(registry) = BuiltInDefaults

\* A reset after the caller registered a strategy of his own, obtained the
\* registry and changed the strategy
C15_Witness ==
    /\ result.op = "reset"
    /\ objstate[<<"user", "u1">>] = "changed"
    /\ \E i \in DOMAIN obtained : obtained[i][3] = <<"got", "u1">>

C17_LeadingDotOptional ==
    result.op \in {"register", "unregister"} =>
        result.key = Str(IF result.ext # <<>> /\ Head(result.ext) = "."
                         THEN result.ext
                         ELSE <<".">> \o result.ext)

\* C21: with the export on, a formatted rendition of every considered file
\* found in the compared root is written below <compared root + suffix> if
\* and only if its strategy has save capability, whether or not the files
\* differ; the suffix is _FORMATTED for True and the given string otherwise;
\* nothing is written with the export off.  (Stated once the first call of
\* the caller is over; the scenarios with export hold no specific_args.)
C21_ExportWritesFormattedFiles ==
    (calls = 1 /\ callpc = "idle") =>
        exported =
            {<<(IF sc.export = "True" THEN "_FORMATTED" ELSE sc.export), p>> :
                p \in {q \in Paths : /\ sc.export # "False"
                                      /\ OnBothSides(q)
                                      /\ RegisteredKind(q) = "JsonComparator"}}

\* The first entry of the mapping whose strategy has the class name (0 when
\* there is none)
FirstOfClass(d, name) ==
    IF \E i \in DOMAIN d : ClassName(d[i][2]) = name
    THEN CHOOSE i \in DOMAIN d :
            /\ ClassName(d[i][2]) = name
            /\ \A j \in 1..(i - 1) : ClassName(d[j][2]) # name
    ELSE 0

\* The mapping holds a strategy (not None) under the key
HoldsStrategy(d, k) == \E i \in DOMAIN d : d[i][1] = k /\ d[i][2] # NullEntry

\* C22: pick_comparator returns an override that is a strategy instance as
\* it is; else, for a string override, the first strategy of the mapping
\* whose class has that name; else the non-null entry of the mapping for the
\* suffix; else the default strategy (the entry None of the registry).  A
\* name of no class, an unknown suffix and a null entry fall through to the
\* next step.
C22_PickOrder ==
    result.op = "pick" =>
        LET in == result.kw
            o == in.override
            d == in.comparators
            named == IF "name" \in DOMAIN o THEN FirstOfClass(d, o.name) ELSE 0
        IN IF "inst" \in DOMAIN o /\ o.inst \in BaseClasses
           THEN result.exc = NoExc /\ result.value = Instance(o.inst, "arg", "")
           ELSE IF named # 0
           THEN result.exc = NoExc
                /\ result.value = Instance(d[named][2], "cfg", d[named][1])
           ELSE IF HoldsStrategy(d, in.suffix)
           THEN result.exc = NoExc
                /\ result.value = Instance(Value(d, in.suffix), "cfg", in.suffix)
           ELSE HoldsStrategy(registry, NoneKey) =>
                   /\ result.exc = NoExc
                   /\ result.value = Instance(Value(registry, NoneKey), "reg", NoneKey)

\* A name of no class was given for a suffix whose entry is null: the
\* default strategy was returned
C22_Witness ==
    /\ result.op = "pick"
    /\ result.kw.override = [name |-> "UnknownComparator"]
    /\ result.kw.suffix = ".json"
    /\ \E i \in DOMAIN result.kw.comparators :
           result.kw.comparators[i] = <<".json", NullEntry>>
    /\ result.value = Instance("DefaultComparator", "reg", NoneKey)

\* C24: when the comparators mapping of the configuration has an entry for
\* the key None, a file whose suffix has no entry in the mapping (and no
\* override) gets that entry, whatever the registry holds.
C24_ConfigDefaultUsed ==
    (/\ result.op = "pick"
     /\ result.kw.override = NoOverride
     /\ result.kw.suffix \notin Keys(result.kw.comparators)
     /\ HoldsStrategy(result.kw.comparators, NoneKey)) =>
        /\ result.exc = NoExc
        /\ result.value.kind = Value(result.kw.comparators, NoneKey)

\* The stages every call starts with
FirstStages ==
    << <<"reset">>, <<"load", "ref_file">>, <<"load", "comp_file">>,
       <<"format_data", "comp", "ref">>, <<"diff", "ref", "formatted_comp">> >>

RECURSIVE Flatten(_)
Flatten(chunks) ==
    IF chunks = <<>> THEN <<>> ELSE Head(chunks) \o Flatten(Tail(chunks))

\* C25: the chunks of a list, concatenated in order, are the list; no chunk
\* of a non-empty list is empty; a number of chunks of zero or less gives the
\* whole list as the single chunk; so every file of the list is in exactly one
\* chunk, once.
C25_ChunksPartitionTheList ==
    result.op = "split" =>
        LET items == result.kw.items
            chunks == result.value
        IN /\ Flatten(chunks) = items
           /\ items # <<>> => \A c \in DOMAIN chunks : chunks[c] # <<>>
           /\ result.kw.num_chunks <= 0 => chunks = <<items>>
           /\ \A k \in DOMAIN items :
                  Cardinality({ci \in {<<c, i>> : c \in DOMAIN chunks, i \in 1..MaxItems} :
                                  /\ ci[2] \in DOMAIN chunks[ci[1]]
                                  /\ chunks[ci[1]][ci[2]] = items[k]}) = 1

\* Seven files split for three workers, the last chunk being the remainder
C25_Witness ==
    /\ result.op = "split"
    /\ Len(result.kw.items) = 7
    /\ result.kw.num_chunks = 3
    /\ Len(result.value) = 4
    /\ Len(result.value[4]) = 1

\* C26: for a number of chunks of one or more, the splitter returns at most
\* that many chunks.
C26_AtMostNumChunks ==
    (result.op = "split" /\ result.kw.num_chunks >= 1) =>
        Len(result.value) <= result.kw.num_chunks

\* The exception that leaves _compare_single_file for the file in a worker
\* process (NoExc when none does): of the choice of the strategy, or of the
\* export
EscapingException(p) ==
    IF ~CompFileExists(sc.comp, p) THEN NoExc
    ELSE LET r == Resolve(p, sargs, psa, comparators, WorkerRegistry)
         IN IF r.exc # NoExc THEN r.exc
            ELSE IF /\ export_formatted_files # "False"
                    /\ ExportOutcome(r.comparator.kind, sc.comp[p]) = "raise"
            THEN JsonError
            ELSE NoExc

\* What _compare_single_file returns for the file when nothing escapes
NormalResult(p) ==
    IF ~CompFileExists(sc.comp, p) THEN MissingMsg(p)
    ELSE LET r == Resolve(p, sargs, psa, comparators, WorkerRegistry)
         IN CompareFiles(r.comparator.kind, p, sc.ref[p], sc.comp[p],
                         r.args, r.kwargs, sc.raw)

\* C27: in process mode a finished chunk holds one result per file: the
\* message 'Error comparing file: <text of the exception>' for a file whose
\* comparison raised, the normal result for every other file.
C27_ChunkKeepsOneResultPerFile ==
    (callpc = "running" /\ Branch(mode, files) = "process") =>
        \A c \in DOMAIN FileChunks :
            ChunkDone(c) =>
                \A i \in DOMAIN FileChunks[c] :
                    LET p == FileChunks[c][i]
                        e == EscapingException(p)
                    IN /\ worker[p].pc = "done"
                       /\ worker[p].exc = NoExc
                       /\ worker[p].res = (IF e # NoExc THEN ChunkErrorMsg(e)
                                           ELSE NormalResult(p))

\* A finished chunk of two files: the first raised, the second differs
C27_Witness ==
    /\ callpc = "running"
    /\ Branch(mode, files) = "process"
    /\ \E c \in DOMAIN FileChunks :
          /\ ChunkDone(c)
          /\ \E i, j \in DOMAIN FileChunks[c] :
                /\ i < j
                /\ EscapingException(FileChunks[c][i]) # NoExc
                /\ worker[FileChunks[c][i]].res.t = "msg"
                /\ worker[FileChunks[c][i]].res.kind = "chunk_error"
                /\ worker[FileChunks[c][j]].res.t = "msg"
                /\ worker[FileChunks[c][j]].res.kind = "different"

\* The export of the file raises: the JsonComparator loads a compared file
\* that is not valid JSON
ExportRaises(p) ==
    /\ sc.export # "False"
    /\ OnBothSides(p)
    /\ RegisteredKind(p) = "JsonComparator"
    /\ sc.comp[p] = "bad"

\* C28: with the export on, an exception of the strategy during the export
\* of a file does not end the call: the call returns a mapping which holds
\* for the file the message of its comparison and holds every other file
\* that differs, whatever the executor.
C28_ExportErrorsDoNotAbort ==
    \A m \in ExecutorTypes, p \in Paths :
        (/\ returned[m] # NoCall
         /\ sc.specific_args = <<>>
         /\ ExportRaises(p))
            => /\ returned[m].kind = "returned"
               /\ p \in DOMAIN returned[m].files
               /\ returned[m].files[p] =
                     DiffMsg(p, ExceptionReason(JsonError), <<>>, EmptyDict)
               /\ \A q \in Paths \ {p} :
                     (OnBothSides(q) /\ sc.ref[q] # sc.comp[q])
                         => q \in DOMAIN returned[m].files

\* C29: the construction of a configuration leaves the specific_args mapping
\* of the caller as it was, the entries of the pattern groups still holding
\* "patterns"; a second configuration built from the same mapping has the
\* pattern-group overrides of the first.
C29_SpecificArgsLeftIntact ==
    /\ (result.op = "config" /\ result.exc = NoExc)
           => result.value.specific_args = result.kw.specific_args
    /\ (result.op = "config again" /\ result.exc = NoExc)
           => result.value.second.pattern_specific_args
                  = result.value.first.pattern_specific_args

\* C30: assert_equal_trees called with a configuration, without
\* export_formatted_files and with no option of the pytest plugin set, runs
\* the comparison with the export_formatted_files of the configuration.
C30_ConfigExportKept ==
    (/\ callpc = "running"
     /\ asserting.on
     /\ style = "evolve"
     /\ asserting.arg = "omitted"
     /\ ~pytest_trigger.set)
        => export_formatted_files = sc.export

====
